---- MODULE Spec2Model ----
(***************************************************************************)
(* Model of the netCAS split engine of OCF:                                *)
(*   - the load-admit dispatcher   (engine_mfcwt.c, load_admit_allow)      *)
(*   - the MFCWT read engine       (engine_mfcwt.c, ocf_read_mfcwt)        *)
(*   - the MFCWT write engine      (engine_mfcwt.c, ocf_write_mfcwt)       *)
(*   - the split-ratio controller  (netCAS_split.c, split_monitor_func)    *)
(* The specifications share the variables: Spec (read engine, which calls  *)
(* the dispatcher at entry), SpecWrite (write engine), SpecDispatch (the   *)
(* dispatcher alone, over whole windows, at a constant split ratio),       *)
(* SpecSerial (the dispatcher while the split ratio changes between        *)
(* calls), SpecSubmitters (the dispatcher called from several contexts at  *)
(* once), SpecCtl (the controller thread, one iteration a step),           *)
(* SpecThread (the controller thread statement by statement, beside a      *)
(* context that queries the split ratio and the context that stops the     *)
(* thread) and SpecThreadFair (the thread and its stop under weak          *)
(* fairness).                                                              *)
(***************************************************************************)
EXTENDS Integers, Sequences, FiniteSets, TLC

VARIABLES
    USING_NETCAS_SPLIT, \* engine_mfcwt.c:31, the process-wide toggle
    mf_monitor,         \* the values the "monitor" implementation publishes
    table,              \* lookup_bandwidth(IO_DEPTH, NUM_JOBS, 100 / 0)
    ctl,                \* the file-scope statics of netCAS_split.c
    now,                \* env_get_tick_count()
    mon_pc,             \* position of the monitor thread
    disp,               \* the function-scope statics of load_admit_allow
    run,                \* history: the current run of same-direction decisions
    req,                \* the request in the engine
    nreq,               \* history: number of requests that entered the engine
    trace,              \* history: iterations of the monitor loop, level changes
    split_ratio_lock,   \* netCAS_split.c:51
    data_admit_lock,    \* netCAS_split.c:54
    mon,                \* the monitor thread: its stop flag and its locals
    query,              \* a context inside netcas_query_optimal_split_ratio
    calls               \* the contexts inside load_admit_allow

\* the variables only the step-by-step specifications change
thread_vars == <<split_ratio_lock, data_admit_lock, mon, query, calls>>

vars == <<USING_NETCAS_SPLIT, mf_monitor, table, ctl, now, mon_pc, disp, run, req, nreq, trace,
          thread_vars>>

----------------------------------------------------------------------------
(* Integers.  The counters of the code are uint32_t / uint64_t.  Within the  *)
(* bounds below no counter that only grows reaches 2^31, and no product      *)
(* exceeds it.  A uint32_t that the code decrements (the two quotas) can wrap *)
(* below zero: it is kept as its two's-complement representative, so -1      *)
(* stands for 2^32 - 1; the code only ever tests such a field against 0.     *)
(* Times are kept in milliseconds instead of nanoseconds.                    *)

Min(a, b) == IF a < b THEN a ELSE b

Max(a, b) == IF a > b THEN a ELSE b

----------------------------------------------------------------------------
(* Program constants *)

window_size == 10000

max_pattern_size == 10

RDMA_WINDOW_SIZE == 20

MONITOR_INTERVAL_MS == 1000

\* WARMUP_PERIOD_NS (10000000000 ns), in milliseconds
WARMUP_PERIOD_MS == 10000

RDMA_THRESHOLD == 100

CONGESTION_THRESHOLD == 90

CACHING_FAILED == FALSE

NETCAS_MODE_IDLE == "IDLE"

NETCAS_MODE_WARMUP == "WARMUP"

NETCAS_MODE_STABLE == "STABLE"

NETCAS_MODE_CONGESTION == "CONGESTION"

\* used by the code (netCAS_split.c:238, 369) though the enum does not list it
NETCAS_MODE_FAILURE == "FAILURE"

----------------------------------------------------------------------------
(* Bounds of the model *)

\* dispatcher calls explored by SpecDispatch: two whole windows and a call more
MaxCalls == 20001

\* iterations of the monitor loop explored by SpecCtl, in monitor intervals
MaxTicks == 24

\* level changes of the throughput trace fed to the monitor
MaxChanges == 2

\* read requests entering the engine in Spec
MaxReqs == 2

\* cache sub-requests of one read (ocf_engine_io_count)
MaxIo == 2

\* level changes of the throughput trace fed to the monitor thread when it
\* is explored step by step (SpecThread)
MaxThreadChanges == 1

\* calls of netcas_query_optimal_split_ratio explored beside the monitor thread
MaxQueries == 1

\* contexts that submit reads at the same time (SpecSubmitters)
MaxSubmitters == 2

\* calls of load_admit_allow those contexts make in all
MaxSubmits == 3

\* calls of load_admit_allow made one after the other while the split ratio
\* changes between them (SpecSerial)
MaxSerialCalls == 5

\* changes of the split ratio between those calls
MaxRatioChanges == 2

----------------------------------------------------------------------------
(* The load-admit dispatcher: engine_mfcwt.c, load_admit_allow *)

\* the statics as the C initializers leave them
DispInit ==
    [request_counter |-> 0, cache_quota |-> 0, backend_quota |-> 0,
     last_request_to_cache |-> FALSE, pattern_position |-> 0,
     pattern_cache |-> 0, pattern_backend |-> 0, pattern_size |-> 0,
     total_requests |-> 0, cache_requests |-> 0, backend_requests |-> 0]

\* the while loop of lines 84-89; returns a when b reaches 0
RECURSIVE GcdLoop(_, _)
GcdLoop(a, b) == IF b = 0 THEN a ELSE GcdLoop(b, a % b)

\* lines 77-106: the window reset
WindowReset(d, split_ratio) ==
    LET a == split_ratio
        b == window_size - split_ratio
        gcd == IF a > 0 /\ b > 0 THEN GcdLoop(a, b) ELSE 1
        ps0 == (split_ratio + (window_size - split_ratio)) \div gcd
        ps == IF ps0 > max_pattern_size THEN max_pattern_size ELSE ps0
        pc == (split_ratio * ps) \div window_size
    IN  [d EXCEPT !.pattern_size = ps,
                  !.pattern_cache = pc,
                  !.pattern_backend = ps - pc,
                  !.total_requests = 0,
                  !.cache_requests = 0,
                  !.backend_requests = 0,
                  !.cache_quota = split_ratio,
                  !.backend_quota = window_size - split_ratio,
                  !.pattern_position = 0]

\* line 77: the reset condition
NeedsReset(d) == d.request_counter % window_size = 0 \/ d.pattern_size = 0

\* Decide with <= for < in the test of line 115
Decide_le(d, split_ratio) ==
    LET expected_cache_ratio == (d.total_requests * split_ratio) \div window_size
        expected_backend_ratio == d.total_requests - expected_cache_ratio
    IN  IF d.cache_requests <= expected_cache_ratio
        THEN <<FALSE, d.pattern_position, "cache_behind">>
        ELSE IF d.backend_requests < expected_backend_ratio
        THEN <<TRUE, d.pattern_position, "backend_behind">>
        ELSE <<d.last_request_to_cache, d.pattern_position, "quota">>

\* Decide that consults the pattern before it compares the counts with
\* their expected values (lines 127-132 ahead of line 115)
Decide_pattern_first(d, split_ratio) ==
    LET expected_cache_ratio == (d.total_requests * split_ratio) \div window_size
        expected_backend_ratio == d.total_requests - expected_cache_ratio
    IN  IF d.pattern_position < d.pattern_size
        THEN <<d.pattern_position >= d.pattern_cache,
               (d.pattern_position + 1) % d.pattern_size, "pattern">>
        ELSE IF d.cache_requests < expected_cache_ratio
        THEN <<FALSE, d.pattern_position, "cache_behind">>
        ELSE IF d.backend_requests < expected_backend_ratio
        THEN <<TRUE, d.pattern_position, "backend_behind">>
        ELSE <<d.last_request_to_cache, d.pattern_position, "quota">>

\* lines 115-151: the decision; d is the state after the counters were bumped.
\* Returns <<send_to_backend, pattern_position', branch>>; branch is history,
\* the branch that set send_to_backend: "cache_behind" (line 115),
\* "backend_behind" (line 120), "pattern" (line 127) or "quota" (lines 133-150).
Decide(d, split_ratio) ==
    LET expected_cache_ratio == (d.total_requests * split_ratio) \div window_size
        expected_backend_ratio == d.total_requests - expected_cache_ratio
    IN  IF d.cache_requests < expected_cache_ratio
        THEN <<FALSE, d.pattern_position, "cache_behind">>
        ELSE IF d.backend_requests < expected_backend_ratio
        THEN <<TRUE, d.pattern_position, "backend_behind">>
        ELSE IF d.pattern_position < d.pattern_size
             THEN <<d.pattern_position >= d.pattern_cache,
                    (d.pattern_position + 1) % d.pattern_size, "pattern">>
        ELSE IF d.cache_quota = 0 THEN <<TRUE, d.pattern_position, "quota">>
        ELSE IF d.backend_quota = 0 THEN <<FALSE, d.pattern_position, "quota">>
        ELSE <<d.last_request_to_cache, d.pattern_position, "quota">>

\* Account without the cache_requests++ of line 164
Account_no_cache_count(d, send_to_backend) ==
    IF send_to_backend
    THEN [d EXCEPT !.backend_quota = @ - 1,
                   !.backend_requests = @ + 1,
                   !.last_request_to_cache = FALSE]
    ELSE [d EXCEPT !.cache_quota = @ - 1,
                   !.last_request_to_cache = TRUE]

\* lines 153-168: the bookkeeping of the decision
Account(d, send_to_backend) ==
    IF send_to_backend
    THEN [d EXCEPT !.backend_quota = @ - 1,
                   !.backend_requests = @ + 1,
                   !.last_request_to_cache = FALSE]
    ELSE [d EXCEPT !.cache_quota = @ - 1,
                   !.cache_requests = @ + 1,
                   !.last_request_to_cache = TRUE]

\* load_admit_allow returning send_to_backend itself (lines 159 and 167 swapped)
load_admit_allow_inverted(d, split_ratio) ==
    LET d1 == IF NeedsReset(d) THEN WindowReset(d, split_ratio) ELSE d
        d2 == [d1 EXCEPT !.request_counter = @ + 1,
                         !.total_requests = @ + 1]
        dec == Decide(d2, split_ratio)
        d3 == [d2 EXCEPT !.pattern_position = dec[2]]
    IN  [d |-> Account(d3, dec[1]), ret |-> dec[1], branch |-> dec[3]]

\* the whole call: the new statics, the value returned (TRUE: to cache) and
\* the branch that decided
load_admit_allow(d, split_ratio) ==
    LET d1 == IF NeedsReset(d) THEN WindowReset(d, split_ratio) ELSE d
        d2 == [d1 EXCEPT !.request_counter = @ + 1,
                         !.total_requests = @ + 1]
        dec == Decide(d2, split_ratio)
        d3 == [d2 EXCEPT !.pattern_position = dec[2]]
    IN  [d |-> Account(d3, dec[1]), ret |-> ~dec[1], branch |-> dec[3]]

\* a context outside load_admit_allow; the fields past pc are the values it
\* holds in registers between its steps
CallIdle ==
    [pc |-> "idle", split_ratio |-> 0, request_counter |-> 0, total_requests |-> 0,
     send_to_backend |-> FALSE]

\* the contexts that can be inside load_admit_allow at the same time
Submitters == 1 .. MaxSubmitters

\* no context is inside load_admit_allow.  The fields past local are
\* history: the calls that have bumped total_requests (line 109) since the
\* window was last reset (lines 99-104), the calls started, the branch of
\* lines 115-151 that decided the last call, and the times the split ratio
\* has changed between two calls
CallsInit ==
    [local |-> [i \in Submitters |-> CallIdle], since_reset |-> 0, started |-> 0,
     branch |-> "none", ratio_changes |-> 0]

----------------------------------------------------------------------------
(* The split-ratio controller: netCAS_split.c *)

WindowSlots == 0 .. (RDMA_WINDOW_SIZE - 1)

\* the statics of netCAS_split.c (lines 32-48), the static current_mode of
\* determine_netcas_mode (line 193) and the locals of split_monitor_func that
\* live across iterations (lines 275-278), as the C initializers leave them.
\* recomputed is history: the last iteration called find_best_split_ratio.
CtlInit ==
    [rdma_throughput_window |-> [i \in WindowSlots |-> 0],
     rdma_window_index |-> 0,
     rdma_window_sum |-> 0,
     rdma_window_count |-> 0,
     rdma_window_average |-> 0,
     max_average_rdma_throughput |-> 0,
     last_nonzero_transition_time |-> 0,
     netCAS_initialized |-> FALSE,
     split_ratio_calculated_in_stable |-> FALSE,
     optimal_split_ratio |-> 100,
     global_data_admit |-> TRUE,
     current_mode |-> NETCAS_MODE_IDLE,
     drop_permil |-> 0,
     netCAS_mode |-> NETCAS_MODE_IDLE,
     curr_rdma_throughput |-> 0,
     recomputed |-> FALSE]

\* lines 59-65
split_set_optimal_ratio(c, ratio) == [c EXCEPT !.optimal_split_ratio = ratio]

\* lines 70-79
netcas_query_optimal_split_ratio(c) == c.optimal_split_ratio

\* lines 84-89
netcas_set_data_admit(c, data_admit) == [c EXCEPT !.global_data_admit = data_admit]

\* lines 94-103
netcas_query_data_admit(c) == c.global_data_admit

\* What a uint64_t division by zero can do: the divide error kills the
\* thread (trap, x86), or the instruction yields a quotient without trapping
\* (0 on arm64; any value once the compiler has used the undefined behaviour).
DivZeroOutcomes ==
    {[trap |-> TRUE, value |-> 0], [trap |-> FALSE, value |-> 0],
     [trap |-> FALSE, value |-> 2147483647]}

\* lines 109-124: the set of possible results (a trap, or the clamped split)
calculate_split_ratio_formula(bandwidth_cache_only, bandwidth_backend_only) ==
    LET den == bandwidth_cache_only + bandwidth_backend_only
        quotients == IF den = 0 THEN DivZeroOutcomes
                     ELSE {[trap |-> FALSE, value |-> (bandwidth_cache_only * 100) \div den]}
        Clamp(q) == IF q > 100 THEN 100 ELSE q
    IN  {[q EXCEPT !.value = Clamp(@)] : q \in quotients}

\* find_best_split_ratio without the scaling of lines 149-152
find_best_split_ratio_unscaled(c, tbl, curr_rdma_throughput, drop_permil) ==
    IF c.max_average_rdma_throughput = 0 THEN {[trap |-> FALSE, value |-> 100]}
    ELSE calculate_split_ratio_formula(tbl.cache_only, tbl.backend_only)

\* lines 130-165: the set of possible results
find_best_split_ratio(c, tbl, curr_rdma_throughput, drop_permil) ==
    LET bandwidth_cache_only == tbl.cache_only
        bandwidth_backend_only == tbl.backend_only
        scaled == IF curr_rdma_throughput > RDMA_THRESHOLD
                  THEN (bandwidth_backend_only * (1000 - drop_permil)) \div 1000
                  ELSE bandwidth_backend_only
    IN  IF c.max_average_rdma_throughput = 0 THEN {[trap |-> FALSE, value |-> 100]}
        ELSE calculate_split_ratio_formula(bandwidth_cache_only, scaled)

\* init_netCAS without the reset of line 177
init_netCAS_keeps_max(c) ==
    [c EXCEPT !.rdma_throughput_window = [i \in WindowSlots |-> 0],
              !.rdma_window_sum = 0,
              !.rdma_window_index = 0,
              !.rdma_window_count = 0,
              !.rdma_window_average = 0,
              !.global_data_admit = TRUE,
              !.optimal_split_ratio = 100,
              !.last_nonzero_transition_time = 0,
              !.netCAS_initialized = TRUE,
              !.split_ratio_calculated_in_stable = FALSE]

\* lines 167-189
init_netCAS(c) ==
    [c EXCEPT !.rdma_throughput_window = [i \in WindowSlots |-> 0],
              !.rdma_window_sum = 0,
              !.rdma_window_index = 0,
              !.rdma_window_count = 0,
              !.rdma_window_average = 0,
              !.max_average_rdma_throughput = 0,
              !.global_data_admit = TRUE,
              !.optimal_split_ratio = 100,
              !.last_nonzero_transition_time = 0,
              !.netCAS_initialized = TRUE,
              !.split_ratio_calculated_in_stable = FALSE]

\* determine_netcas_mode with < for <= in the test of line 197
determine_netcas_mode_below(c, curr_rdma_throughput, drop_permil, curr_time) ==
    IF curr_rdma_throughput < RDMA_THRESHOLD
    THEN [c EXCEPT !.current_mode = NETCAS_MODE_IDLE,
                   !.last_nonzero_transition_time = 0]
    ELSE IF c.current_mode = NETCAS_MODE_IDLE
    THEN [c EXCEPT !.current_mode = NETCAS_MODE_WARMUP,
                   !.last_nonzero_transition_time = curr_time,
                   !.netCAS_initialized = FALSE]
    ELSE IF c.current_mode = NETCAS_MODE_WARMUP
            /\ curr_time - c.last_nonzero_transition_time >= WARMUP_PERIOD_MS
    THEN c
    ELSE IF c.current_mode = NETCAS_MODE_WARMUP
    THEN [c EXCEPT !.current_mode = NETCAS_MODE_STABLE,
                   !.split_ratio_calculated_in_stable = FALSE]
    ELSE IF c.current_mode = NETCAS_MODE_CONGESTION /\ drop_permil < CONGESTION_THRESHOLD
    THEN [c EXCEPT !.current_mode = NETCAS_MODE_STABLE,
                   !.split_ratio_calculated_in_stable = FALSE]
    ELSE IF c.current_mode = NETCAS_MODE_STABLE /\ drop_permil > CONGESTION_THRESHOLD
    THEN [c EXCEPT !.current_mode = NETCAS_MODE_CONGESTION,
                   !.split_ratio_calculated_in_stable = TRUE]
    ELSE IF CACHING_FAILED
    THEN [c EXCEPT !.current_mode = NETCAS_MODE_FAILURE]
    ELSE c

\* lines 191-242; curr_time is env_get_tick_count() (line 194).
\* The new statics; the value returned is their current_mode.
determine_netcas_mode(c, curr_rdma_throughput, drop_permil, curr_time) ==
    IF curr_rdma_throughput <= RDMA_THRESHOLD
    THEN [c EXCEPT !.current_mode = NETCAS_MODE_IDLE,
                   !.last_nonzero_transition_time = 0]
    ELSE IF c.current_mode = NETCAS_MODE_IDLE
    THEN [c EXCEPT !.current_mode = NETCAS_MODE_WARMUP,
                   !.last_nonzero_transition_time = curr_time,
                   !.netCAS_initialized = FALSE]
    ELSE IF c.current_mode = NETCAS_MODE_WARMUP
            /\ curr_time - c.last_nonzero_transition_time >= WARMUP_PERIOD_MS
    THEN c
    ELSE IF c.current_mode = NETCAS_MODE_WARMUP
    THEN [c EXCEPT !.current_mode = NETCAS_MODE_STABLE,
                   !.split_ratio_calculated_in_stable = FALSE]
    ELSE IF c.current_mode = NETCAS_MODE_CONGESTION /\ drop_permil < CONGESTION_THRESHOLD
    THEN [c EXCEPT !.current_mode = NETCAS_MODE_STABLE,
                   !.split_ratio_calculated_in_stable = FALSE]
    ELSE IF c.current_mode = NETCAS_MODE_STABLE /\ drop_permil > CONGESTION_THRESHOLD
    THEN [c EXCEPT !.current_mode = NETCAS_MODE_CONGESTION,
                   !.split_ratio_calculated_in_stable = TRUE]
    ELSE IF CACHING_FAILED
    THEN [c EXCEPT !.current_mode = NETCAS_MODE_FAILURE]
    ELSE c

\* update_max_average without the test of line 260
update_max_average_always(c) ==
    [c EXCEPT !.max_average_rdma_throughput = c.rdma_window_average]

\* lines 260-265: the high-water mark
update_max_average(c) ==
    IF c.max_average_rdma_throughput < c.rdma_window_average
    THEN [c EXCEPT !.max_average_rdma_throughput = c.rdma_window_average]
    ELSE c

\* update_rdma_window dividing the sum by the size of the window instead of
\* the number of samples in it (line 257)
update_rdma_window_full_average(c, curr_rdma_throughput) ==
    LET full == ~(c.rdma_window_count < RDMA_WINDOW_SIZE)
        count == IF full THEN c.rdma_window_count ELSE c.rdma_window_count + 1
        sum0 == IF full
                THEN c.rdma_window_sum - c.rdma_throughput_window[c.rdma_window_index]
                ELSE c.rdma_window_sum
        sum == sum0 + curr_rdma_throughput
    IN  update_max_average(
          [c EXCEPT !.rdma_window_count = count,
                    !.rdma_throughput_window[c.rdma_window_index] = curr_rdma_throughput,
                    !.rdma_window_sum = sum,
                    !.rdma_window_average = sum \div RDMA_WINDOW_SIZE,
                    !.rdma_window_index = (c.rdma_window_index + 1) % RDMA_WINDOW_SIZE])

\* lines 244-266
update_rdma_window(c, curr_rdma_throughput) ==
    LET full == ~(c.rdma_window_count < RDMA_WINDOW_SIZE)
        count == IF full THEN c.rdma_window_count ELSE c.rdma_window_count + 1
        sum0 == IF full
                THEN c.rdma_window_sum - c.rdma_throughput_window[c.rdma_window_index]
                ELSE c.rdma_window_sum
        sum == sum0 + curr_rdma_throughput
    IN  update_max_average(
          [c EXCEPT !.rdma_window_count = count,
                    !.rdma_throughput_window[c.rdma_window_index] = curr_rdma_throughput,
                    !.rdma_window_sum = sum,
                    !.rdma_window_average = sum \div count,
                    !.rdma_window_index = (c.rdma_window_index + 1) % RDMA_WINDOW_SIZE])

\* lines 298-301: drop_permil keeps its previous value when the maximum is 0
compute_drop_permil(c) ==
    IF c.max_average_rdma_throughput > 0
    THEN ((c.max_average_rdma_throughput - c.rdma_window_average) * 1000)
             \div c.max_average_rdma_throughput
    ELSE c.drop_permil

\* lines 308-315
case_idle(c) == IF ~c.netCAS_initialized THEN init_netCAS(c) ELSE c

\* case_warmup without the netcas_set_data_admit(false) of line 320
case_warmup_keeps_admit(c) == c

\* lines 317-321
case_warmup(c) == netcas_set_data_admit(c, FALSE)

\* case_stable without the mark of line 335
case_stable_no_mark(c, tbl) ==
    LET c1 == update_rdma_window(netcas_set_data_admit(c, FALSE), c.curr_rdma_throughput)
        c2 == [c1 EXCEPT !.recomputed = TRUE]
    IN  IF ~c1.split_ratio_calculated_in_stable /\ c1.rdma_window_count >= RDMA_WINDOW_SIZE
        THEN {IF split_ratio.trap THEN <<c2, "trap">>
              ELSE <<split_set_optimal_ratio(c2, split_ratio.value), "ok">> :
              split_ratio \in find_best_split_ratio(c1, tbl, c.curr_rdma_throughput, c.drop_permil)}
        ELSE {<<c1, "ok">>}

\* lines 323-342: the set of outcomes, each <<statics, "ok" | "trap">>
case_stable(c, tbl) ==
    LET c1 == update_rdma_window(netcas_set_data_admit(c, FALSE), c.curr_rdma_throughput)
        c2 == [c1 EXCEPT !.recomputed = TRUE]
    IN  IF ~c1.split_ratio_calculated_in_stable /\ c1.rdma_window_count >= RDMA_WINDOW_SIZE
        THEN {IF split_ratio.trap THEN <<c2, "trap">>
              ELSE <<[split_set_optimal_ratio(c2, split_ratio.value)
                        EXCEPT !.split_ratio_calculated_in_stable = TRUE], "ok">> :
              split_ratio \in find_best_split_ratio(c1, tbl, c.curr_rdma_throughput, c.drop_permil)}
        ELSE {<<c1, "ok">>}

\* lines 344-367: the set of outcomes
case_congestion(c, tbl) ==
    LET c1 == update_rdma_window(netcas_set_data_admit(c, FALSE), c.curr_rdma_throughput)
        c2 == [c1 EXCEPT !.recomputed = TRUE]
    IN  IF c1.rdma_window_count >= RDMA_WINDOW_SIZE
        THEN {IF split_ratio.trap THEN <<c2, "trap">>
              ELSE IF split_ratio.value # c1.optimal_split_ratio
                   THEN <<split_set_optimal_ratio(c2, split_ratio.value), "ok">>
                   ELSE <<c2, "ok">> :
              split_ratio \in find_best_split_ratio(c1, tbl, c.curr_rdma_throughput, c.drop_permil)}
        ELSE {<<c1, "ok">>}

\* lines 295-373: one iteration of the loop past the stop test, for the
\* sample read at line 297 and the clock read at line 194
monitor_iteration(c, tbl, sample, curr_time) ==
    LET drop == compute_drop_permil(c)
        c0 == [c EXCEPT !.curr_rdma_throughput = sample, !.drop_permil = drop,
                        !.recomputed = FALSE]
        c1 == determine_netcas_mode(c0, sample, drop, curr_time)
        c2 == [c1 EXCEPT !.netCAS_mode = c1.current_mode]
    IN  CASE c2.netCAS_mode = NETCAS_MODE_IDLE -> {<<case_idle(c2), "ok">>}
          [] c2.netCAS_mode = NETCAS_MODE_WARMUP -> {<<case_warmup(c2), "ok">>}
          [] c2.netCAS_mode = NETCAS_MODE_STABLE -> case_stable(c2, tbl)
          [] c2.netCAS_mode = NETCAS_MODE_CONGESTION -> case_congestion(c2, tbl)
          [] OTHER -> {<<c2, "ok">>}


----------------------------------------------------------------------------
(* The MFCWT read engine: engine_mfcwt.c, lines 171-404 *)

\* A request outside the engine.  data is the content of the user's buffer
\* req->data and cp_bytes the content of the copy buffer req->cp_data;
\* core_bytes and complete_data are history: the bytes the backend returned
\* and the content of req->data when the callback ran.
\* For a write, sub_pc is the position of the submitting context inside
\* _ocf_write_mfcwt_submit, from_entry tells that ocf_write_mfcwt is its
\* caller, the three *_pending fields count the sub-operations in flight, and
\* cache_failed / core_failed are history: a cache-side (sub-write or metadata
\* flush) or the backend write has failed.
\* pc is where the request is ("w_io": a write with sub-operations to come):
\*   "none"      not yet submitted
\*   "wait_lock" the cache-line lock was not granted at once; resume pending
\*   "cache_io"  cache sub-reads in flight
\*   "core_io"   the backend read in flight
\*   "clean"     handed to the cleaner, which re-runs the do-step
\*   "done"      finished by the read engine itself
\*   "pt", "inv", "bf"  handed to the pass-through, invalidate, backfill engine
ReqInit ==
    [pc |-> "none",
     data_admit_allowed |-> FALSE, load_admit_allowed |-> FALSE,
     hit |-> FALSE, rd_locked |-> FALSE, dirty_any |-> FALSE,
     mapping_error |-> FALSE, io_count |-> 1,
     lock_type |-> "none", lock |-> "none",
     req_remaining |-> 0, error |-> "ok", core_error |-> FALSE,
     cp_data |-> "null", cp_filled |-> FALSE, promote |-> FALSE,
     data |-> "none", cp_bytes |-> "none",
     core_bytes |-> "none", complete_data |-> "none",
     flush_metadata |-> FALSE, sub_pc |-> "none", from_entry |-> FALSE,
     cache_pending |-> 0, core_pending |-> 0, flush_pending |-> 0,
     cache_failed |-> FALSE, core_failed |-> FALSE,
     cache_ios |-> 0, core_ios |-> 0, do_runs |-> 0,
     complete_calls |-> 0, complete_arg |-> "ok",
     ref |-> 1, log |-> <<>>]

Event(r, e) == [r EXCEPT !.log = Append(@, e)]

ocf_req_get(r) == [r EXCEPT !.ref = @ + 1]

ocf_req_put(r) == [r EXCEPT !.ref = @ - 1]

\* req->complete(req, error)
complete(r, error) ==
    Event([r EXCEPT !.complete_calls = @ + 1, !.complete_arg = error,
                    !.complete_data = r.data], "complete")

\* lines 35-45
data_admit_allow(using, c, m) ==
    IF using THEN netcas_query_data_admit(c) ELSE m.data_admit

\* lines 67-75: the split ratio load_admit_allow reads
query_split_ratio(using, c, m) ==
    IF using THEN netcas_query_optimal_split_ratio(c) ELSE m.load_admit

\* get_lock_type that takes the read lock on every hit
get_lock_type_read_on_hit(r) ==
    IF r.hit
    THEN "read"
    ELSE IF r.data_admit_allowed THEN "write" ELSE "none"

\* lines 334-350
ocf_read_mfcwt_get_lock_type(r) ==
    IF r.hit
    THEN IF r.load_admit_allowed THEN "read" ELSE "none"
    ELSE IF r.data_admit_allowed THEN "write" ELSE "none"

\* the cache completion without the req_remaining test of line 177
to_cache_cmpl_every_time(r, error) ==
    LET r1 == IF error # "ok" THEN [r EXCEPT !.error = error] ELSE r
        r2 == [r1 EXCEPT !.req_remaining = @ - 1]
        pc == IF r2.req_remaining = 0 THEN "done" ELSE r2.pc
    IN  IF r2.error # "ok"
        THEN Event([r2 EXCEPT !.pc = "pt"], "push_front_pt")
        ELSE ocf_req_put(complete(
                 Event([r2 EXCEPT !.lock = "none", !.pc = pc], "unlock"),
                 r2.error))

\* lines 171-192; error is "ok" or the error of the sub-read
_ocf_read_mfcwt_to_cache_cmpl(r, error) ==
    LET r1 == IF error # "ok" THEN [r EXCEPT !.error = error] ELSE r
        r2 == [r1 EXCEPT !.req_remaining = @ - 1]
    IN  IF r2.req_remaining = 0
        THEN IF r2.error # "ok"
             THEN Event([r2 EXCEPT !.pc = "pt"], "push_front_pt")
             ELSE ocf_req_put(complete(
                      Event([r2 EXCEPT !.lock = "none", !.pc = "done"], "unlock"),
                      r2.error))
        ELSE r2

\* lines 194-199
_ocf_read_mfcwt_submit_to_cache(r) ==
    Event([r EXCEPT !.req_remaining = r.io_count,
                    !.cache_ios = @ + r.io_count,
                    !.pc = "cache_io"], "submit_cache")

\* the error branch without the ctx_data_free and the reset of lines 214-215
core_cmpl_error_keeps_buffer(r) ==
    LET r1 == complete(r, r.error)
        r2 == [r1 EXCEPT !.core_error = TRUE]
    IN  Event([r2 EXCEPT !.pc = "inv"], "invalidate")

\* lines 209-217 and 233-241: the error branch both backend completions share
core_cmpl_error(r) ==
    LET r1 == complete(r, r.error)
        r2 == Event([r1 EXCEPT !.core_error = TRUE, !.cp_data = "null",
                               !.cp_filled = FALSE, !.cp_bytes = "none"], "free")
    IN  Event([r2 EXCEPT !.pc = "inv"], "invalidate")

\* line 219: ctx_data_cpy(cp_data <- data)
ctx_data_cpy(r) == Event([r EXCEPT !.cp_filled = TRUE, !.cp_bytes = r.data], "cpy")

\* the promoting completion that schedules the backfill first and copies
\* the user's buffer after the callback has run
to_core_cmpl_do_promote_cpy_last(r, error) ==
    LET r1 == IF error # "ok" THEN [r EXCEPT !.error = error] ELSE r
        r2 == [r1 EXCEPT !.req_remaining = @ - 1]
    IN  IF r2.req_remaining = 0
        THEN IF r2.error # "ok"
             THEN core_cmpl_error(r2)
             ELSE ctx_data_cpy(Event([complete(r2, r2.error) EXCEPT !.pc = "bf"],
                                     "backfill"))
        ELSE r2

\* lines 201-223
_ocf_read_mfcwt_to_core_cmpl_do_promote(r, error) ==
    LET r1 == IF error # "ok" THEN [r EXCEPT !.error = error] ELSE r
        r2 == [r1 EXCEPT !.req_remaining = @ - 1]
    IN  IF r2.req_remaining = 0
        THEN IF r2.error # "ok"
             THEN core_cmpl_error(r2)
             ELSE Event([complete(ctx_data_cpy(r2), r2.error)
                           EXCEPT !.pc = "bf"], "backfill")
        ELSE r2

\* lines 225-246
_ocf_read_mfcwt_to_core_cmpl_no_promote(r, error) ==
    LET r1 == IF error # "ok" THEN [r EXCEPT !.error = error] ELSE r
        r2 == [r1 EXCEPT !.req_remaining = @ - 1]
    IN  IF r2.req_remaining = 0
        THEN IF r2.error # "ok"
             THEN core_cmpl_error(r2)
             ELSE ocf_req_put([complete(r2, r2.error) EXCEPT !.pc = "done"])
        ELSE r2

\* the backend submission that goes on to submit the read after a failed
\* allocation or mlock (no return at lines 259 and 265)
submit_to_core_after_failure(r, promote, alloc) ==
    LET r1 == [r EXCEPT !.req_remaining = 1, !.promote = promote]
        submitted(x) == Event([x EXCEPT !.core_ios = @ + 1, !.pc = "core_io"],
                              "submit_core")
    IN  IF promote
        THEN IF alloc = "no_mem"
             THEN submitted(_ocf_read_mfcwt_to_core_cmpl_do_promote(r1, "no_mem"))
             ELSE IF alloc = "mlock_failed"
             THEN submitted(_ocf_read_mfcwt_to_core_cmpl_do_promote(
                      Event([r1 EXCEPT !.cp_data = "allocated"], "alloc"), "no_mem"))
             ELSE submitted(Event([r1 EXCEPT !.cp_data = "allocated"], "alloc"))
        ELSE submitted(r1)

\* lines 248-273; alloc is what the allocator does: "ok", "no_mem" (line 256)
\* or "mlock_failed" (line 262)
_ocf_read_mfcwt_submit_to_core(r, promote, alloc) ==
    LET r1 == [r EXCEPT !.req_remaining = 1, !.promote = promote]
        submitted(x) == Event([x EXCEPT !.core_ios = @ + 1, !.pc = "core_io"],
                              "submit_core")
    IN  IF promote
        THEN IF alloc = "no_mem"
             THEN _ocf_read_mfcwt_to_core_cmpl_do_promote(r1, "no_mem")
             ELSE IF alloc = "mlock_failed"
             THEN _ocf_read_mfcwt_to_core_cmpl_do_promote(
                      Event([r1 EXCEPT !.cp_data = "allocated"], "alloc"), "no_mem")
             ELSE submitted(Event([r1 EXCEPT !.cp_data = "allocated"], "alloc"))
        ELSE submitted(r1)

\* lines 275-332
_ocf_read_mfcwt_do(r, alloc) ==
    LET r1 == ocf_req_get([r EXCEPT !.do_runs = @ + 1])
    IN  IF r1.hit
        THEN IF r1.load_admit_allowed
             THEN ocf_req_put(_ocf_read_mfcwt_submit_to_cache(r1))
             ELSE ocf_req_put(_ocf_read_mfcwt_submit_to_core(r1, FALSE, alloc))
        ELSE IF r1.data_admit_allowed
             THEN IF r1.rd_locked
                  THEN Event([r1 EXCEPT !.pc = "pt"], "read_pt_do")
                  ELSE IF r1.dirty_any
                  THEN ocf_req_put(Event([r1 EXCEPT !.pc = "clean"], "clean"))
                  ELSE ocf_req_put(_ocf_read_mfcwt_submit_to_core(r1, TRUE, alloc))
             ELSE ocf_req_put(_ocf_read_mfcwt_submit_to_core(r1, FALSE, alloc))

\* lines 376-402: what follows ocf_engine_prepare_clines.  lock is its result:
\* "acquired", "not_acquired" (the engine is resumed later) or "error".
after_prepare_clines(r, lock, alloc) ==
    LET r1 == IF ~r.mapping_error
              THEN IF lock # "error"
                   THEN IF lock # "acquired"
                        THEN [r EXCEPT !.pc = "wait_lock"]
                        ELSE _ocf_read_mfcwt_do([r EXCEPT !.lock = r.lock_type], alloc)
                   ELSE ocf_req_put([complete(r, "lock_error") EXCEPT !.pc = "done"])
              ELSE Event([r EXCEPT !.pc = "pt"], "read_pt")
    IN  ocf_req_put(r1)

\* lines 362-404 past the blocked test: in is the request as mapped by
\* ocf_engine_prepare_clines, load_admit the value load_admit_allow returned
ocf_read_mfcwt(in, data_admit, load_admit, lock, alloc) ==
    LET r1 == ocf_req_get(in)
        r2 == [r1 EXCEPT !.data_admit_allowed = data_admit,
                         !.load_admit_allowed = load_admit]
        r3 == [r2 EXCEPT !.lock_type = ocf_read_mfcwt_get_lock_type(r2)]
    IN  after_prepare_clines(r3, lock, alloc)


----------------------------------------------------------------------------
(* The MFCWT write engine: engine_mfcwt.c, lines 408-546 *)

\* lines 408-424
_ocf_write_mfcwt_req_complete(r) ==
    LET r1 == [r EXCEPT !.req_remaining = @ - 1]
        arg == IF r1.core_error THEN r1.error ELSE "ok"
    IN  IF r1.req_remaining # 0
        THEN r1
        ELSE IF r1.error # "ok"
        THEN Event([complete(r1, arg) EXCEPT !.pc = "inv"], "invalidate")
        ELSE ocf_req_put([complete(Event([r1 EXCEPT !.lock = "none"], "unlock"), arg)
                            EXCEPT !.pc = "done"])

\* the cache-side completion that stores the latest error (req->error = error)
write_cache_complete_overwrites(r, error) ==
    LET r1 == IF error # "ok"
              THEN Event([r EXCEPT !.error = error], "fallback_inc")
              ELSE r
    IN  _ocf_write_mfcwt_req_complete(r1)

\* lines 426-436: req->error keeps the first error (req->error ?: error)
_ocf_write_mfcwt_cache_complete(r, error) ==
    LET r1 == IF error # "ok"
              THEN Event([r EXCEPT !.error = IF r.error # "ok" THEN r.error ELSE error],
                         "fallback_inc")
              ELSE r
    IN  _ocf_write_mfcwt_req_complete(r1)

\* lines 438-447
_ocf_write_mfcwt_core_complete(r, error) ==
    LET r1 == IF error # "ok"
              THEN [r EXCEPT !.error = error, !.core_error = TRUE]
              ELSE r
    IN  _ocf_write_mfcwt_req_complete(r1)

\* line 456: the metadata layer schedules the flush; it registers the flush
\* in req_remaining before it returns, and the flush ends in one call of the
\* completion it was given
ocf_metadata_flush_do_asynch(r) ==
    Event([r EXCEPT !.req_remaining = @ + 1, !.flush_pending = @ + 1], "submit_flush")

\* the submit that counts the cache sub-writes only (no env_atomic_inc)
write_submit_no_inc(r) ==
    LET r1 == [r EXCEPT !.req_remaining = r.io_count]
    IN  IF r1.flush_metadata THEN ocf_metadata_flush_do_asynch(r1) ELSE r1

\* the submit that schedules the metadata flush before it sets the counter
write_submit_flush_first(r) ==
    LET r1 == IF r.flush_metadata THEN ocf_metadata_flush_do_asynch(r) ELSE r
        r2 == [r1 EXCEPT !.req_remaining = r.io_count]
    IN  [r2 EXCEPT !.req_remaining = @ + 1]

\* lines 449-457: the counter and the metadata flush.  The two submissions
\* of lines 458-460 are steps of their own (ocf_submit_cache_reqs_write,
\* ocf_submit_volume_req_write): completions can arrive between them.
_ocf_write_mfcwt_submit(r) ==
    LET r1 == [r EXCEPT !.req_remaining = r.io_count]
        r2 == [r1 EXCEPT !.req_remaining = @ + 1]
    IN  IF r2.flush_metadata THEN ocf_metadata_flush_do_asynch(r2) ELSE r2

\* lines 458-459
ocf_submit_cache_reqs_write(r) ==
    Event([r EXCEPT !.cache_pending = @ + r.io_count,
                    !.cache_ios = @ + r.io_count,
                    !.sub_pc = "core"], "submit_cache")

\* lines 460, 491-494 and, under ocf_write_mfcwt, 544: the backend write is
\* submitted and the submitting context leaves the engine
ocf_submit_volume_req_write(r) ==
    LET r1 == Event([r EXCEPT !.core_pending = @ + 1, !.core_ios = @ + 1,
                              !.sub_pc = "none"], "submit_core")
        r2 == ocf_req_put(r1)
    IN  IF r2.from_entry THEN ocf_req_put([r2 EXCEPT !.from_entry = FALSE]) ELSE r2

\* lines 463-484: the metadata bits of the mapped lines (outside the model)
_ocf_write_mfcwt_update_bits(r) == Event(r, "update_bits")

\* lines 486-490: the do-step up to the first submission
_ocf_write_mfcwt_do(r) ==
    LET r1 == ocf_req_get([r EXCEPT !.do_runs = @ + 1])
        r2 == _ocf_write_mfcwt_submit(_ocf_write_mfcwt_update_bits(r1))
    IN  [r2 EXCEPT !.pc = "w_io", !.sub_pc = "cache"]

\* lines 502-505
ocf_mfcwt_get_lock_type(r) == "write"

\* lines 512-546; lock is the result of ocf_engine_prepare_clines
ocf_write_mfcwt(in, lock) ==
    LET r1 == ocf_req_get(in)
        r2 == [r1 EXCEPT !.lock_type = ocf_mfcwt_get_lock_type(r1)]
    IN  IF ~r2.mapping_error
        THEN IF lock # "error"
             THEN IF lock # "acquired"
                  THEN ocf_req_put([r2 EXCEPT !.pc = "wait_lock"])
                  ELSE _ocf_write_mfcwt_do([r2 EXCEPT !.lock = r2.lock_type,
                                                      !.from_entry = TRUE])
             ELSE ocf_req_put(ocf_req_put([complete(r2, "lock_error") EXCEPT !.pc = "done"]))
        ELSE ocf_req_put(Event([r2 EXCEPT !.pc = "pt"], "write_pt"))

----------------------------------------------------------------------------
(* Inputs *)

\* throughput samples measure_performance can return: none, the threshold
\* itself, and two levels above it that are more than 9% apart
Samples == {0, RDMA_THRESHOLD, 800, 1000}

\* time between two iterations of the monitor loop: the monitoring interval,
\* or a stall as long as the warmup period.  The clock is read to a purpose
\* only in an iteration entered in Warmup mode (line 213), so a stall is
\* explored there only.
Elapsed(c) ==
    IF c.current_mode = NETCAS_MODE_WARMUP
    THEN {MONITOR_INTERVAL_MS, WARMUP_PERIOD_MS}
    ELSE {MONITOR_INTERVAL_MS}

\* bandwidth tables: <<IOPS at split 100, IOPS at split 0>>
BandwidthTables ==
    {[cache_only |-> 0, backend_only |-> 0],
     [cache_only |-> 3000, backend_only |-> 1000],
     [cache_only |-> 1000, backend_only |-> 3000]}

\* split ratios on the dispatcher's scale (0 .. window_size), as the
\* "monitor" implementation publishes them
DispatchRatios == {0, 1, 100, 3333, 5000, 9090, 9999, window_size}

\* split ratios the netCAS controller publishes (percent)
PublishedRatios == {0, 1, 50, 100}

\* the samples and the tables the step-by-step specification of the monitor
\* thread draws from: no traffic and two levels more than 9% apart; a table
\* of zeros and one that prefers the cache
ThreadSamples == {0, 800, 1000}

ThreadTables ==
    {[cache_only |-> 0, backend_only |-> 0],
     [cache_only |-> 3000, backend_only |-> 1000]}

LockResults == {"acquired", "not_acquired", "error"}

AllocResults == {"ok", "no_mem", "mlock_failed"}

IoErrors == {"ok", "io_error"}

\* results of a cache sub-write, of the metadata flush and of the backend write
CacheWriteErrors == {"ok", "cache_io_error"}

FlushErrors == {"ok", "flush_error"}

CoreWriteErrors == {"ok", "core_io_error"}

\* contents a read of the backend can return
Bytes == {"b0", "b1"}

\* the backend read has ended: on success its bytes are in req->data
core_read_done(r, error, bytes) ==
    IF error = "ok"
    THEN Event([r EXCEPT !.data = bytes, !.core_bytes = bytes], "core_cmpl")
    ELSE Event(r, "core_cmpl")

\* the monitor implementation's values when it is not the one in use
MonitorIdle == [load_admit |-> window_size, data_admit |-> TRUE]

\* the statics of a controller that has published split ratio p: 100 is what
\* init_netCAS publishes, any other value was computed in Stable mode
CtlPublishing(p) ==
    IF p = 100 THEN init_netCAS(CtlInit)
    ELSE [init_netCAS(CtlInit) EXCEPT !.optimal_split_ratio = p,
                                      !.global_data_admit = FALSE,
                                      !.netCAS_initialized = FALSE,
                                      !.split_ratio_calculated_in_stable = TRUE,
                                      !.current_mode = NETCAS_MODE_STABLE,
                                      !.netCAS_mode = NETCAS_MODE_STABLE]

\* the dispatcher statics after 99 calls at split ratio 100: the next call
\* is the first of the window that load_admit_allow sends to the cache
DispBeforeFirstCache ==
    [request_counter |-> 99, cache_quota |-> 100, backend_quota |-> 9801,
     last_request_to_cache |-> FALSE, pattern_position |-> 0,
     pattern_cache |-> 0, pattern_backend |-> 10, pattern_size |-> 10,
     total_requests |-> 99, cache_requests |-> 0, backend_requests |-> 99]

\* the dispatcher statics after window_size - 2 calls at a constant split
\* ratio: the second call from here is the last of the window and the third
\* resets it
DispWindowEnd(split_ratio) ==
    LET n == window_size - 2
        cache == (n * split_ratio) \div window_size
        before == ((n - 1) * split_ratio) \div window_size
    IN  [WindowReset(DispInit, split_ratio) EXCEPT
            !.request_counter = n,
            !.total_requests = n,
            !.cache_requests = cache,
            !.backend_requests = n - cache,
            !.cache_quota = split_ratio - cache,
            !.backend_quota = (window_size - split_ratio) - (n - cache),
            !.last_request_to_cache = cache > before]

----------------------------------------------------------------------------
(* History *)

RunInit == [len |-> 0, to_cache |-> FALSE]

\* the run of same-direction decisions after one more decision
NextRun(r, to_cache) ==
    IF r.len > 0 /\ r.to_cache = to_cache
    THEN [r EXCEPT !.len = @ + 1]
    ELSE [len |-> 1, to_cache |-> to_cache]

\* stable_calcs: the calls of find_best_split_ratio since the controller
\* last entered Stable mode (0 outside Stable mode); appended: the samples
\* update_rdma_window was given since init_netCAS last ran, oldest first
\* sleeps: the calls of msleep since the throughput was last sampled
TraceInit == [ticks |-> 0, changes |-> 0, stable_calcs |-> 0, appended |-> <<>>,
              sleeps |-> 0]

\* stable_calcs after an iteration that took the statics from c to d
StableCalcs(t, c, d) ==
    IF d.netCAS_mode = NETCAS_MODE_STABLE
    THEN (IF c.netCAS_mode = NETCAS_MODE_STABLE THEN t.stable_calcs ELSE 0)
         + (IF d.recomputed THEN 1 ELSE 0)
    ELSE 0

\* appended after an iteration that took the statics from c to d: the
\* Stable and the Congestion case append the sample (lines 327, 348), the
\* Idle case empties the window when it runs init_netCAS (lines 311-314)
Appended(t, c, d) ==
    IF d.netCAS_mode \in {NETCAS_MODE_STABLE, NETCAS_MODE_CONGESTION}
    THEN Append(t.appended, d.curr_rdma_throughput)
    ELSE IF d.netCAS_mode = NETCAS_MODE_IDLE /\ ~c.netCAS_initialized
    THEN <<>>
    ELSE t.appended

\* an env_rwlock before env_rwlock_init: state is "uninit", "init" or
\* "destroyed"; destroys is history, the calls of env_rwlock_destroy on it
RwlockInit == [state |-> "uninit", writer |-> FALSE, readers |-> 0, destroys |-> 0]

\* the monitor thread before kthread_run: the flag kthread_should_stop
\* reads, the local split_ratio of split_monitor_func (line 275), the
\* parameter of split_set_optimal_ratio (line 60) and the place it returns to
MonInit == [should_stop |-> FALSE, split_ratio |-> 0, ratio |-> 0, ret_pc |-> "none"]

\* no context is inside netcas_query_optimal_split_ratio; ratio is its
\* local (line 72), done is history (the queries that returned)
QueryInit == [pc |-> "idle", ratio |-> 0, done |-> 0]

ThreadsInit ==
    /\ split_ratio_lock = RwlockInit
    /\ data_admit_lock = RwlockInit
    /\ mon = MonInit
    /\ query = QueryInit
    /\ calls = CallsInit

----------------------------------------------------------------------------
(* Actions of the dispatcher alone *)

\* engine_mfcwt.c:374: one call of load_admit_allow
DispatchCall ==
    /\ disp.request_counter < MaxCalls
    /\ LET la == load_admit_allow(disp, query_split_ratio(USING_NETCAS_SPLIT, ctl, mf_monitor))
       IN  /\ disp' = la.d
           /\ run' = NextRun(run, la.ret)
    /\ UNCHANGED <<USING_NETCAS_SPLIT, mf_monitor, table, ctl, now, mon_pc, req, nreq, trace, thread_vars>>

InitDispatch ==
    /\ USING_NETCAS_SPLIT \in BOOLEAN
    /\ IF USING_NETCAS_SPLIT
       THEN /\ mf_monitor = MonitorIdle
            /\ ctl \in {CtlPublishing(p) : p \in PublishedRatios}
       ELSE /\ mf_monitor \in [load_admit : DispatchRatios, data_admit : {TRUE}]
            /\ ctl = CtlInit
    /\ table = [cache_only |-> 3000, backend_only |-> 1000]
    /\ now = 0
    /\ mon_pc = IF USING_NETCAS_SPLIT THEN "loop" ELSE "none"
    /\ disp = DispInit
    /\ run = RunInit
    /\ req = ReqInit
    /\ nreq = 0
    /\ trace = TraceInit
    /\ ThreadsInit

NextDispatch == DispatchCall

SpecDispatch == InitDispatch /\ [][NextDispatch]_vars

----------------------------------------------------------------------------
(* Actions of the dispatcher called from several contexts at once:        *)
(* engine_mfcwt.c:374 is reached from every submitting context, and        *)
(* load_admit_allow takes no lock around its statics.  A context runs the  *)
(* function in five steps; the increments of lines 108-109 are a load and  *)
(* a store each, as the machine executes them.                             *)

\* engine_mfcwt.c:67-106: the split ratio is read and the window reset
CallEnter(i) ==
    /\ calls.local[i].pc = "idle"
    /\ calls.started < MaxSubmits
    /\ LET split_ratio == query_split_ratio(USING_NETCAS_SPLIT, ctl, mf_monitor)
           reset == NeedsReset(disp)
       IN  /\ disp' = IF reset THEN WindowReset(disp, split_ratio) ELSE disp
           /\ calls' = [calls EXCEPT !.local[i].pc = "load",
                                     !.local[i].split_ratio = split_ratio,
                                     !.started = @ + 1,
                                     !.since_reset = IF reset THEN 0 ELSE @]
    /\ UNCHANGED <<USING_NETCAS_SPLIT, mf_monitor, table, ctl, now, mon_pc, run, req, nreq,
                   trace, split_ratio_lock, data_admit_lock, mon, query>>

\* engine_mfcwt.c:108-109: the two counters are loaded
CallLoad(i) ==
    /\ calls.local[i].pc = "load"
    /\ calls' = [calls EXCEPT !.local[i].pc = "store",
                              !.local[i].request_counter = disp.request_counter,
                              !.local[i].total_requests = disp.total_requests]
    /\ UNCHANGED <<USING_NETCAS_SPLIT, mf_monitor, table, ctl, now, mon_pc, disp, run, req,
                   nreq, trace, split_ratio_lock, data_admit_lock, mon, query>>

\* engine_mfcwt.c:108-109: the incremented values are stored
CallStore(i) ==
    /\ calls.local[i].pc = "store"
    /\ disp' = [disp EXCEPT !.request_counter = calls.local[i].request_counter + 1,
                            !.total_requests = calls.local[i].total_requests + 1]
    /\ calls' = [calls EXCEPT !.local[i].pc = "decide", !.since_reset = @ + 1]
    /\ UNCHANGED <<USING_NETCAS_SPLIT, mf_monitor, table, ctl, now, mon_pc, run, req, nreq,
                   trace, split_ratio_lock, data_admit_lock, mon, query>>

\* engine_mfcwt.c:111-151: the decision, from the statics as they are now
CallDecide(i) ==
    /\ calls.local[i].pc = "decide"
    /\ LET dec == Decide(disp, calls.local[i].split_ratio)
       IN  /\ disp' = [disp EXCEPT !.pattern_position = dec[2]]
           /\ calls' = [calls EXCEPT !.local[i].pc = "account",
                                     !.local[i].send_to_backend = dec[1],
                                     !.branch = dec[3]]
    /\ UNCHANGED <<USING_NETCAS_SPLIT, mf_monitor, table, ctl, now, mon_pc, run, req, nreq,
                   trace, split_ratio_lock, data_admit_lock, mon, query>>

\* engine_mfcwt.c:153-168: the bookkeeping and the return
CallAccount(i) ==
    /\ calls.local[i].pc = "account"
    /\ disp' = Account(disp, calls.local[i].send_to_backend)
    /\ run' = NextRun(run, ~calls.local[i].send_to_backend)
    /\ calls' = [calls EXCEPT !.local[i] = CallIdle]
    /\ UNCHANGED <<USING_NETCAS_SPLIT, mf_monitor, table, ctl, now, mon_pc, req, nreq,
                   trace, split_ratio_lock, data_admit_lock, mon, query>>

InitSubmitters == InitDispatch

NextSubmitters ==
    \E i \in Submitters :
        \/ CallEnter(i)
        \/ CallLoad(i)
        \/ CallStore(i)
        \/ CallDecide(i)
        \/ CallAccount(i)

SpecSubmitters == InitSubmitters /\ [][NextSubmitters]_vars

----------------------------------------------------------------------------
(* Actions of the dispatcher called by one context at a time while the    *)
(* split ratio it reads changes between the calls.                         *)

\* engine_mfcwt.c:374: one call of load_admit_allow, from entry to return
SerialCall ==
    /\ calls.started < MaxSerialCalls
    /\ LET la == load_admit_allow(disp, query_split_ratio(USING_NETCAS_SPLIT, ctl, mf_monitor))
       IN  /\ disp' = la.d
           /\ run' = NextRun(run, la.ret)
           /\ calls' = [calls EXCEPT !.started = @ + 1,
                                     !.since_reset = IF NeedsReset(disp) THEN 1 ELSE @ + 1,
                                     !.branch = la.branch]
    /\ UNCHANGED <<USING_NETCAS_SPLIT, mf_monitor, table, ctl, now, mon_pc, req, nreq,
                   trace, split_ratio_lock, data_admit_lock, mon, query>>

\* engine_mfcwt.c:68-75: the value the next call will read has changed
\* (netCAS_split.c:66, 333, 358 store optimal_split_ratio; the monitor
\* implementation publishes load_admit)
RatioChange ==
    /\ calls.ratio_changes < MaxRatioChanges
    /\ IF USING_NETCAS_SPLIT
       THEN /\ \E p \in PublishedRatios \ {ctl.optimal_split_ratio} :
                  ctl' = [ctl EXCEPT !.optimal_split_ratio = p]
            /\ UNCHANGED mf_monitor
       ELSE /\ \E p \in DispatchRatios \ {mf_monitor.load_admit} :
                  mf_monitor' = [mf_monitor EXCEPT !.load_admit = p]
            /\ UNCHANGED ctl
    /\ calls' = [calls EXCEPT !.ratio_changes = @ + 1]
    /\ UNCHANGED <<USING_NETCAS_SPLIT, table, now, mon_pc, disp, run, req, nreq,
                   trace, split_ratio_lock, data_admit_lock, mon, query>>

InitSerial ==
    /\ USING_NETCAS_SPLIT \in BOOLEAN
    /\ IF USING_NETCAS_SPLIT
       THEN /\ mf_monitor = MonitorIdle
            /\ ctl \in {CtlPublishing(p) : p \in PublishedRatios}
       ELSE /\ mf_monitor \in [load_admit : DispatchRatios, data_admit : {TRUE}]
            /\ ctl = CtlInit
    /\ table = [cache_only |-> 3000, backend_only |-> 1000]
    /\ now = 0
    /\ mon_pc = IF USING_NETCAS_SPLIT THEN "loop" ELSE "none"
    /\ disp \in {DispInit,
                 DispWindowEnd(query_split_ratio(USING_NETCAS_SPLIT, ctl, mf_monitor))}
    /\ run = RunInit
    /\ req = ReqInit
    /\ nreq = 0
    /\ trace = TraceInit
    /\ split_ratio_lock = RwlockInit
    /\ data_admit_lock = RwlockInit
    /\ mon = MonInit
    /\ query = QueryInit
    /\ calls = [CallsInit EXCEPT !.since_reset = disp.total_requests]

NextSerial == SerialCall \/ RatioChange

SpecSerial == InitSerial /\ [][NextSerial]_vars

----------------------------------------------------------------------------
(* Actions of the monitor thread *)

\* netCAS_split.c:387-406
MonitorStart ==
    /\ mon_pc = "none"
    /\ ctl' = init_netCAS(ctl)
    /\ mon_pc' = "loop"
    /\ trace' = [trace EXCEPT !.appended = <<>>]
    /\ UNCHANGED <<USING_NETCAS_SPLIT, mf_monitor, table, now, disp, run, req, nreq, thread_vars>>

\* netCAS_split.c:284-374: one iteration of the loop of split_monitor_func
MonitorTick ==
    /\ mon_pc = "loop"
    /\ trace.ticks < MaxTicks
    /\ \E sample \in Samples, elapsed \in Elapsed(ctl) :
          LET changed == trace.ticks > 0 /\ sample # ctl.curr_rdma_throughput
              changes == trace.changes + (IF changed THEN 1 ELSE 0)
          IN  /\ changes <= MaxChanges
              /\ now' = now + elapsed
              /\ \E out \in monitor_iteration(ctl, table, sample, now + elapsed) :
                    /\ ctl' = out[1]
                    /\ trace' = [trace EXCEPT !.ticks = @ + 1, !.changes = changes,
                                     !.stable_calcs = StableCalcs(trace, ctl, out[1]),
                                     !.appended = Appended(trace, ctl, out[1])]
                    /\ mon_pc' = IF out[2] = "trap" THEN "oops" ELSE "loop"
    /\ UNCHANGED <<USING_NETCAS_SPLIT, mf_monitor, table, disp, run, req, nreq, thread_vars>>

InitCtl ==
    /\ USING_NETCAS_SPLIT = TRUE
    /\ mf_monitor = MonitorIdle
    /\ table \in BandwidthTables
    /\ ctl = CtlInit
    /\ now = 0
    /\ mon_pc = "none"
    /\ disp = DispInit
    /\ run = RunInit
    /\ req = ReqInit
    /\ nreq = 0
    /\ trace = TraceInit
    /\ ThreadsInit

NextCtl == MonitorStart \/ MonitorTick

SpecCtl == InitCtl /\ [][NextCtl]_vars

----------------------------------------------------------------------------
(* The monitor thread step by step, beside a context that queries the      *)
(* split ratio: netCAS_split.c                                              *)

\* env_rwlock_init (lines 394-395)
env_rwlock_init(l) == [l EXCEPT !.state = "init", !.writer = FALSE, !.readers = 0]

\* env_rwlock_destroy (lines 288-289)
env_rwlock_destroy(l) == [l EXCEPT !.state = "destroyed", !.destroys = @ + 1]

\* env_rwlock_write_lock (line 62) returns once nobody holds the lock
write_lock_free(l) == ~l.writer /\ l.readers = 0

env_rwlock_write_lock(l) == [l EXCEPT !.writer = TRUE]

\* env_rwlock_write_unlock (line 64)
env_rwlock_write_unlock(l) == [l EXCEPT !.writer = FALSE]

\* env_rwlock_read_lock (line 74) returns once no writer holds the lock
read_lock_free(l) == ~l.writer

env_rwlock_read_lock(l) == [l EXCEPT !.readers = @ + 1]

\* env_rwlock_read_unlock (line 76)
env_rwlock_read_unlock(l) == [l EXCEPT !.readers = @ - 1]

\* lines 171-180 of init_netCAS: the window and data_admit
init_netCAS_window(c) ==
    netcas_set_data_admit(
        [c EXCEPT !.rdma_throughput_window = [i \in WindowSlots |-> 0],
                  !.rdma_window_sum = 0,
                  !.rdma_window_index = 0,
                  !.rdma_window_count = 0,
                  !.rdma_window_average = 0,
                  !.max_average_rdma_throughput = 0], TRUE)

\* lines 186-188 of init_netCAS, past split_set_optimal_ratio(100)
init_netCAS_tail(c) ==
    [c EXCEPT !.last_nonzero_transition_time = 0,
              !.netCAS_initialized = TRUE,
              !.split_ratio_calculated_in_stable = FALSE]

\* the thread where it is at pc with locals m and statics c
At(c, pc, m) == [c |-> c, pc |-> pc, m |-> m]

\* lines 306-373 up to the first store to optimal_split_ratio: the set of
\* places the thread can be at after the part of the case that keeps to
\* its own statics.  netcas_set_data_admit is taken as one step: nothing
\* else takes data_admit_lock in this specification.
thread_case(c, tbl, m) ==
    LET c1 == update_rdma_window(netcas_set_data_admit(c, FALSE), c.curr_rdma_throughput)
        c2 == [c1 EXCEPT !.recomputed = TRUE]
        best == find_best_split_ratio(c1, tbl, c.curr_rdma_throughput, c.drop_permil)
    IN  CASE c.netCAS_mode = NETCAS_MODE_IDLE ->
               IF ~c.netCAS_initialized
               THEN {At(init_netCAS_window(c), "set_lock",
                        [m EXCEPT !.ratio = 100, !.ret_pc = "init_tail"])}
               ELSE {At(c, "top", m)}
          [] c.netCAS_mode = NETCAS_MODE_WARMUP -> {At(case_warmup(c), "top", m)}
          [] c.netCAS_mode = NETCAS_MODE_STABLE ->
               IF ~c1.split_ratio_calculated_in_stable /\ c1.rdma_window_count >= RDMA_WINDOW_SIZE
               THEN {IF split_ratio.trap THEN At(c2, "oops", m)
                     ELSE At(c2, "stable_store", [m EXCEPT !.split_ratio = split_ratio.value]) :
                     split_ratio \in best}
               ELSE {At(c1, "top", m)}
          [] c.netCAS_mode = NETCAS_MODE_CONGESTION ->
               IF c1.rdma_window_count >= RDMA_WINDOW_SIZE
               THEN {IF split_ratio.trap THEN At(c2, "oops", m)
                     ELSE IF split_ratio.value # c1.optimal_split_ratio
                     THEN At(c2, "congestion_store", [m EXCEPT !.split_ratio = split_ratio.value])
                     ELSE At(c2, "top", [m EXCEPT !.split_ratio = split_ratio.value]) :
                     split_ratio \in best}
               ELSE {At(c1, "top", m)}
          [] OTHER -> {At(c, "top", m)}

\* netCAS_split.c:387-406: the starting context runs init_netCAS, initializes
\* the two locks and creates the thread
ThreadStart ==
    /\ mon_pc = "none"
    /\ ctl' = init_netCAS(ctl)
    /\ split_ratio_lock' = env_rwlock_init(split_ratio_lock)
    /\ data_admit_lock' = env_rwlock_init(data_admit_lock)
    /\ mon_pc' = "top"
    /\ trace' = [trace EXCEPT !.appended = <<>>]
    /\ UNCHANGED <<USING_NETCAS_SPLIT, mf_monitor, table, now, disp, run, req, nreq,
                   mon, query, calls>>

\* netCAS_split.c:411-420: kthread_stop sets the flag kthread_should_stop reads
ThreadStop ==
    /\ mon_pc # "none"
    /\ ~mon.should_stop
    /\ mon' = [mon EXCEPT !.should_stop = TRUE]
    /\ UNCHANGED <<USING_NETCAS_SPLIT, mf_monitor, table, ctl, now, mon_pc, disp, run, req,
                   nreq, trace, split_ratio_lock, data_admit_lock, query, calls>>

\* netCAS_split.c:284-293: the top of the loop
ThreadTop ==
    /\ mon_pc = "top"
    /\ IF mon.should_stop
       THEN /\ split_ratio_lock' = env_rwlock_destroy(split_ratio_lock)
            /\ data_admit_lock' = env_rwlock_destroy(data_admit_lock)
            /\ mon_pc' = "msleep"
       ELSE /\ trace.ticks < MaxTicks
            /\ mon_pc' = "measure"
            /\ UNCHANGED <<split_ratio_lock, data_admit_lock>>
    /\ UNCHANGED <<USING_NETCAS_SPLIT, mf_monitor, table, ctl, now, disp, run, req, nreq,
                   trace, mon, query, calls>>

\* netCAS_split.c:295-373: the sample, the drop, the mode and the case, up
\* to the first store to optimal_split_ratio
ThreadMeasure ==
    /\ mon_pc = "measure"
    /\ \E sample \in ThreadSamples, elapsed \in {MONITOR_INTERVAL_MS} :
          LET changed == trace.ticks > 0 /\ sample # ctl.curr_rdma_throughput
              changes == trace.changes + (IF changed THEN 1 ELSE 0)
              drop == compute_drop_permil(ctl)
              c0 == [ctl EXCEPT !.curr_rdma_throughput = sample, !.drop_permil = drop,
                                !.recomputed = FALSE]
              c1 == determine_netcas_mode(c0, sample, drop, now + elapsed)
              c2 == [c1 EXCEPT !.netCAS_mode = c1.current_mode]
          IN  /\ changes <= MaxThreadChanges
              /\ now' = now + elapsed
              /\ \E out \in thread_case(c2, table, mon) :
                    /\ ctl' = out.c
                    /\ mon_pc' = out.pc
                    /\ mon' = out.m
                    /\ trace' = [trace EXCEPT !.ticks = @ + 1, !.changes = changes,
                                     !.stable_calcs = StableCalcs(trace, ctl, out.c),
                                     !.appended = Appended(trace, ctl, out.c),
                                     !.sleeps = 0]
    /\ UNCHANGED <<USING_NETCAS_SPLIT, mf_monitor, table, disp, run, req, nreq,
                   split_ratio_lock, data_admit_lock, query, calls>>

\* netCAS_split.c:333-334: the store, then the call of split_set_optimal_ratio
ThreadStableStore ==
    /\ mon_pc = "stable_store"
    /\ ctl' = [ctl EXCEPT !.optimal_split_ratio = mon.split_ratio]
    /\ mon' = [mon EXCEPT !.ratio = mon.split_ratio, !.ret_pc = "stable_mark"]
    /\ mon_pc' = "set_lock"
    /\ UNCHANGED <<USING_NETCAS_SPLIT, mf_monitor, table, now, disp, run, req, nreq, trace,
                   split_ratio_lock, data_admit_lock, query, calls>>

\* netCAS_split.c:335
ThreadStableMark ==
    /\ mon_pc = "stable_mark"
    /\ ctl' = [ctl EXCEPT !.split_ratio_calculated_in_stable = TRUE]
    /\ mon_pc' = "top"
    /\ UNCHANGED <<USING_NETCAS_SPLIT, mf_monitor, table, now, disp, run, req, nreq, trace,
                   thread_vars>>

\* netCAS_split.c:358-359: the store, then the call of split_set_optimal_ratio
ThreadCongestionStore ==
    /\ mon_pc = "congestion_store"
    /\ ctl' = [ctl EXCEPT !.optimal_split_ratio = mon.split_ratio]
    /\ mon' = [mon EXCEPT !.ratio = mon.split_ratio, !.ret_pc = "top"]
    /\ mon_pc' = "set_lock"
    /\ UNCHANGED <<USING_NETCAS_SPLIT, mf_monitor, table, now, disp, run, req, nreq, trace,
                   split_ratio_lock, data_admit_lock, query, calls>>

\* netCAS_split.c:62
ThreadSetLock ==
    /\ mon_pc = "set_lock"
    /\ write_lock_free(split_ratio_lock)
    /\ split_ratio_lock' = env_rwlock_write_lock(split_ratio_lock)
    /\ mon_pc' = "set_store"
    /\ UNCHANGED <<USING_NETCAS_SPLIT, mf_monitor, table, ctl, now, disp, run, req, nreq,
                   trace, data_admit_lock, mon, query, calls>>

\* netCAS_split.c:63
ThreadSetStore ==
    /\ mon_pc = "set_store"
    /\ ctl' = split_set_optimal_ratio(ctl, mon.ratio)
    /\ mon_pc' = "set_unlock"
    /\ UNCHANGED <<USING_NETCAS_SPLIT, mf_monitor, table, now, disp, run, req, nreq, trace,
                   thread_vars>>

\* netCAS_split.c:64-65
ThreadSetUnlock ==
    /\ mon_pc = "set_unlock"
    /\ split_ratio_lock' = env_rwlock_write_unlock(split_ratio_lock)
    /\ mon_pc' = mon.ret_pc
    /\ UNCHANGED <<USING_NETCAS_SPLIT, mf_monitor, table, ctl, now, disp, run, req, nreq,
                   trace, data_admit_lock, mon, query, calls>>

\* netCAS_split.c:186-189, back in the Idle case
ThreadInitTail ==
    /\ mon_pc = "init_tail"
    /\ ctl' = init_netCAS_tail(ctl)
    /\ mon_pc' = "top"
    /\ UNCHANGED <<USING_NETCAS_SPLIT, mf_monitor, table, now, disp, run, req, nreq, trace,
                   thread_vars>>

\* netCAS_split.c:376-379: the sleep past the loop, and the return
ThreadSleep ==
    /\ mon_pc = "msleep"
    /\ trace' = [trace EXCEPT !.sleeps = @ + 1]
    /\ mon_pc' = "exited"
    /\ UNCHANGED <<USING_NETCAS_SPLIT, mf_monitor, table, ctl, now, disp, run, req, nreq,
                   thread_vars>>

\* netCAS_split.c:74
QueryLock ==
    /\ query.pc = "idle"
    /\ query.done < MaxQueries
    /\ split_ratio_lock.state = "init"
    /\ read_lock_free(split_ratio_lock)
    /\ split_ratio_lock' = env_rwlock_read_lock(split_ratio_lock)
    /\ query' = [query EXCEPT !.pc = "locked"]
    /\ UNCHANGED <<USING_NETCAS_SPLIT, mf_monitor, table, ctl, now, mon_pc, disp, run, req,
                   nreq, trace, data_admit_lock, mon, calls>>

\* netCAS_split.c:75
QueryRead ==
    /\ query.pc = "locked"
    /\ query' = [query EXCEPT !.pc = "read", !.ratio = netcas_query_optimal_split_ratio(ctl)]
    /\ UNCHANGED <<USING_NETCAS_SPLIT, mf_monitor, table, ctl, now, mon_pc, disp, run, req,
                   nreq, trace, split_ratio_lock, data_admit_lock, mon, calls>>

\* netCAS_split.c:76-78
QueryUnlock ==
    /\ query.pc = "read"
    /\ split_ratio_lock' = env_rwlock_read_unlock(split_ratio_lock)
    /\ query' = [query EXCEPT !.pc = "idle", !.done = @ + 1]
    /\ UNCHANGED <<USING_NETCAS_SPLIT, mf_monitor, table, ctl, now, mon_pc, disp, run, req,
                   nreq, trace, data_admit_lock, mon, calls>>

InitThread ==
    /\ InitCtl
    /\ table \in ThreadTables

\* the steps of the monitor thread that never wait
ThreadRuns ==
    \/ ThreadTop
    \/ ThreadMeasure
    \/ ThreadStableStore
    \/ ThreadStableMark
    \/ ThreadCongestionStore
    \/ ThreadSetStore
    \/ ThreadSetUnlock
    \/ ThreadInitTail
    \/ ThreadSleep

NextThread ==
    \/ ThreadStart
    \/ ThreadStop
    \/ ThreadRuns
    \/ ThreadSetLock
    \/ QueryLock
    \/ QueryRead
    \/ QueryUnlock

SpecThread == InitThread /\ [][NextThread]_vars

\* the monitor thread and the context that stops it, with no query beside
\* them: the thread finds split_ratio_lock free whenever it asks for it
NextThreadAlone ==
    \/ ThreadStart
    \/ ThreadStop
    \/ ThreadRuns
    \/ ThreadSetLock

\* The scheduler runs the thread again and again: a step it can take
\* without waiting is eventually taken.
SpecThreadFair ==
    /\ InitThread
    /\ [][NextThreadAlone]_vars
    /\ WF_vars(ThreadRuns \/ ThreadSetLock)

----------------------------------------------------------------------------
(* Actions of the read engine *)

\* the previous request has left the read engine
ReqIdle == req.pc \in {"none", "done", "pt", "inv", "bf"}

\* engine_mfcwt.c:367-371: the pending-read-misses list is blocked
ReadBlocked ==
    /\ ReqIdle
    /\ nreq < MaxReqs
    /\ req' = Event([ReqInit EXCEPT !.pc = "pt"], "read_pt")
    /\ nreq' = nreq + 1
    /\ UNCHANGED <<USING_NETCAS_SPLIT, mf_monitor, table, ctl, now, mon_pc, disp, run, trace, thread_vars>>

\* engine_mfcwt.c:362-404: ocf_read_mfcwt on a request the mapper describes
ReadSubmit ==
    /\ ReqIdle
    /\ nreq < MaxReqs
    /\ \E hit \in BOOLEAN, rd_locked \in BOOLEAN, dirty_any \in BOOLEAN,
          mapping_error \in BOOLEAN, io_count \in 1 .. MaxIo,
          lock \in LockResults, alloc \in AllocResults :
          LET la == load_admit_allow(disp, query_split_ratio(USING_NETCAS_SPLIT, ctl, mf_monitor))
              in == [ReqInit EXCEPT !.hit = hit, !.rd_locked = rd_locked,
                                    !.dirty_any = dirty_any,
                                    !.mapping_error = mapping_error,
                                    !.io_count = io_count]
          IN  /\ req' = ocf_read_mfcwt(in, data_admit_allow(USING_NETCAS_SPLIT, ctl, mf_monitor),
                                       la.ret, lock, alloc)
              /\ disp' = la.d
              /\ run' = NextRun(run, la.ret)
    /\ nreq' = nreq + 1
    /\ UNCHANGED <<USING_NETCAS_SPLIT, mf_monitor, table, ctl, now, mon_pc, trace, thread_vars>>

\* engine_mfcwt.c:352-360: the lock is granted and the engine resumed
ReadResume ==
    /\ req.pc = "wait_lock"
    /\ \E alloc \in AllocResults :
          req' = _ocf_read_mfcwt_do(Event([req EXCEPT !.lock = req.lock_type], "resume"), alloc)
    /\ UNCHANGED <<USING_NETCAS_SPLIT, mf_monitor, table, ctl, now, mon_pc, disp, run, nreq, trace, thread_vars>>

\* engine_mfcwt.c:308-315, 352-355: the cleaner has cleaned the dirty lines
\* and pushes the request back to its io_if
CleanResume ==
    /\ req.pc = "clean"
    /\ \E alloc \in AllocResults :
          req' = _ocf_read_mfcwt_do([req EXCEPT !.dirty_any = FALSE], alloc)
    /\ UNCHANGED <<USING_NETCAS_SPLIT, mf_monitor, table, ctl, now, mon_pc, disp, run, nreq, trace, thread_vars>>

\* a cache sub-read completes
CacheCmpl ==
    /\ req.pc = "cache_io"
    /\ \E error \in IoErrors : req' = _ocf_read_mfcwt_to_cache_cmpl(req, error)
    /\ UNCHANGED <<USING_NETCAS_SPLIT, mf_monitor, table, ctl, now, mon_pc, disp, run, nreq, trace, thread_vars>>

\* the backend read of a promoting request completes
CoreCmplPromote ==
    /\ req.pc = "core_io"
    /\ req.promote
    /\ \E error \in IoErrors, bytes \in Bytes :
          req' = _ocf_read_mfcwt_to_core_cmpl_do_promote(core_read_done(req, error, bytes), error)
    /\ UNCHANGED <<USING_NETCAS_SPLIT, mf_monitor, table, ctl, now, mon_pc, disp, run, nreq, trace, thread_vars>>

\* the backend read of a non-promoting request completes
CoreCmplNoPromote ==
    /\ req.pc = "core_io"
    /\ ~req.promote
    /\ \E error \in IoErrors, bytes \in Bytes :
          req' = _ocf_read_mfcwt_to_core_cmpl_no_promote(core_read_done(req, error, bytes), error)
    /\ UNCHANGED <<USING_NETCAS_SPLIT, mf_monitor, table, ctl, now, mon_pc, disp, run, nreq, trace, thread_vars>>

\* the controller statics the engine can find: not started, started (Idle),
\* and after the first sample above the threshold (Warmup, data_admit off)
CtlSeen ==
    LET started == init_netCAS(CtlInit)
    IN  {CtlInit, started}
        \cup {out[1] : out \in monitor_iteration(started,
                                 [cache_only |-> 3000, backend_only |-> 1000],
                                 1000, MONITOR_INTERVAL_MS)}

Init ==
    /\ USING_NETCAS_SPLIT \in BOOLEAN
    /\ IF USING_NETCAS_SPLIT
       THEN /\ mf_monitor = MonitorIdle
            /\ ctl \in CtlSeen
            /\ disp \in {DispInit, DispBeforeFirstCache}
       ELSE /\ mf_monitor \in [load_admit : {0, 5000, window_size}, data_admit : BOOLEAN]
            /\ ctl = CtlInit
            /\ disp = DispInit
    /\ table = [cache_only |-> 3000, backend_only |-> 1000]
    /\ now = 0
    /\ mon_pc = "none"
    /\ run = RunInit
    /\ req = ReqInit
    /\ nreq = 0
    /\ trace = TraceInit
    /\ ThreadsInit

Next ==
    \/ ReadBlocked
    \/ ReadSubmit
    \/ ReadResume
    \/ CleanResume
    \/ CacheCmpl
    \/ CoreCmplPromote
    \/ CoreCmplNoPromote

Spec == Init /\ [][Next]_vars

----------------------------------------------------------------------------
(* Actions of the write engine *)

\* no write is in the engine and none of its sub-operations is in flight
WriteIdle ==
    /\ ReqIdle
    /\ req.sub_pc = "none"
    /\ req.cache_pending = 0
    /\ req.core_pending = 0
    /\ req.flush_pending = 0

\* engine_mfcwt.c:512-546: ocf_write_mfcwt on a request the mapper describes
WriteSubmit ==
    /\ WriteIdle
    /\ nreq < MaxReqs
    /\ \E mapping_error \in BOOLEAN, io_count \in 1 .. MaxIo,
          flush_metadata \in BOOLEAN, lock \in LockResults :
          req' = ocf_write_mfcwt([ReqInit EXCEPT !.mapping_error = mapping_error,
                                                 !.io_count = io_count,
                                                 !.flush_metadata = flush_metadata],
                                 lock)
    /\ nreq' = nreq + 1
    /\ UNCHANGED <<USING_NETCAS_SPLIT, mf_monitor, table, ctl, now, mon_pc, disp, run, trace, thread_vars>>

\* engine_mfcwt.c:497-500: the lock is granted and the engine resumed
WriteResume ==
    /\ req.pc = "wait_lock"
    /\ req' = _ocf_write_mfcwt_do(Event([req EXCEPT !.lock = req.lock_type], "resume"))
    /\ UNCHANGED <<USING_NETCAS_SPLIT, mf_monitor, table, ctl, now, mon_pc, disp, run, nreq, trace, thread_vars>>

\* engine_mfcwt.c:458
WriteSubmitCache ==
    /\ req.sub_pc = "cache"
    /\ req' = ocf_submit_cache_reqs_write(req)
    /\ UNCHANGED <<USING_NETCAS_SPLIT, mf_monitor, table, ctl, now, mon_pc, disp, run, nreq, trace, thread_vars>>

\* engine_mfcwt.c:460
WriteSubmitCore ==
    /\ req.sub_pc = "core"
    /\ req' = ocf_submit_volume_req_write(req)
    /\ UNCHANGED <<USING_NETCAS_SPLIT, mf_monitor, table, ctl, now, mon_pc, disp, run, nreq, trace, thread_vars>>

\* a cache sub-write completes
WriteCacheCmpl ==
    /\ req.cache_pending > 0
    /\ \E error \in CacheWriteErrors :
          req' = _ocf_write_mfcwt_cache_complete(
                     Event([req EXCEPT !.cache_pending = @ - 1,
                                       !.cache_failed = @ \/ error # "ok"], "w_cache_cmpl"),
                     error)
    /\ UNCHANGED <<USING_NETCAS_SPLIT, mf_monitor, table, ctl, now, mon_pc, disp, run, nreq, trace, thread_vars>>

\* the metadata flush completes
WriteFlushCmpl ==
    /\ req.flush_pending > 0
    /\ \E error \in FlushErrors :
          req' = _ocf_write_mfcwt_cache_complete(
                     Event([req EXCEPT !.flush_pending = @ - 1,
                                       !.cache_failed = @ \/ error # "ok"], "w_flush_cmpl"),
                     error)
    /\ UNCHANGED <<USING_NETCAS_SPLIT, mf_monitor, table, ctl, now, mon_pc, disp, run, nreq, trace, thread_vars>>

\* the backend write completes
WriteCoreCmpl ==
    /\ req.core_pending > 0
    /\ \E error \in CoreWriteErrors :
          req' = _ocf_write_mfcwt_core_complete(
                     Event([req EXCEPT !.core_pending = @ - 1,
                                       !.core_failed = @ \/ error # "ok"], "w_core_cmpl"),
                     error)
    /\ UNCHANGED <<USING_NETCAS_SPLIT, mf_monitor, table, ctl, now, mon_pc, disp, run, nreq, trace, thread_vars>>

InitWrite ==
    /\ USING_NETCAS_SPLIT \in BOOLEAN
    /\ mf_monitor = MonitorIdle
    /\ table = [cache_only |-> 3000, backend_only |-> 1000]
    /\ ctl = CtlInit
    /\ now = 0
    /\ mon_pc = "none"
    /\ disp = DispInit
    /\ run = RunInit
    /\ req = ReqInit
    /\ nreq = 0
    /\ trace = TraceInit
    /\ ThreadsInit

NextWrite ==
    \/ WriteSubmit
    \/ WriteResume
    \/ WriteSubmitCache
    \/ WriteSubmitCore
    \/ WriteCacheCmpl
    \/ WriteFlushCmpl
    \/ WriteCoreCmpl

SpecWrite == InitWrite /\ [][NextWrite]_vars

----------------------------------------------------------------------------
(* Properties *)

\* the split ratio the dispatcher reads
SplitRatio == query_split_ratio(USING_NETCAS_SPLIT, ctl, mf_monitor)

Count(log, e) == Cardinality({i \in 1 .. Len(log) : log[i] = e})

\* C1: the read engine invokes the user callback at most once; exactly once
\* when it finishes the request itself (lock error, cache-read success,
\* backend success or error with or without promotion, allocation or mlock
\* failure), and never on the paths it hands to the pass-through engine or
\* while sub-operations are outstanding.
C1_CallbackOnce ==
    /\ req.complete_calls <= 1
    /\ req.complete_calls = Count(req.log, "complete")
    /\ req.pc \in {"done", "inv", "bf"} => req.complete_calls = 1
    /\ req.pc \in {"pt", "wait_lock", "cache_io", "core_io", "clean", "none"}
          => req.complete_calls = 0

\* a read of two cache sub-reads that both succeeded, completed once
C1_Witness ==
    /\ req.pc = "done"
    /\ req.cache_ios = 2
    /\ req.req_remaining = 0
    /\ req.complete_calls = 1
    /\ req.complete_arg = "ok"

\* C2: with the netCAS controller publishing a constant percentage p, a
\* whole dispatcher window of 10000 decisions holds 100*p ToCache decisions
\* (so every read goes to the cache when p = 100).
C2_PercentOfWindow ==
    USING_NETCAS_SPLIT =>
      /\ disp.total_requests = window_size
            => disp.cache_requests = 100 * netcas_query_optimal_split_ratio(ctl)
      /\ (netcas_query_optimal_split_ratio(ctl) = 100 /\ run.len > 0) => run.to_cache

\* C3: the split ratio the controller holds is within 0 .. 100 and the
\* monitor thread never takes a divide error computing it.
C3_RatioInRange ==
    /\ netcas_query_optimal_split_ratio(ctl) \in 0 .. 100
    /\ mon_pc # "oops"

\* C4: data_admit is on exactly when the controller's mode is Idle, after
\* the start and after every iteration of the monitor loop.
C4_AdmitIffIdle ==
    netcas_query_data_admit(ctl) <=> (ctl.current_mode = NETCAS_MODE_IDLE)

\* the controller back in Idle and reinitialized after it had been Stable
\* (the drop it computed there is still in its local)
C4_Witness ==
    /\ mon_pc = "loop"
    /\ ctl.current_mode = NETCAS_MODE_IDLE
    /\ ctl.netCAS_initialized
    /\ ctl.drop_permil > 0
    /\ ctl.global_data_admit

\* C5: the mode is Warmup until WARMUP_PERIOD has elapsed since the
\* Idle-to-Warmup transition, and Stable (or beyond) is entered only once
\* it has elapsed.
C5_WarmupLasts ==
    /\ ctl.current_mode \in {NETCAS_MODE_STABLE, NETCAS_MODE_CONGESTION}
          => now - ctl.last_nonzero_transition_time >= WARMUP_PERIOD_MS
    /\ ctl.current_mode = NETCAS_MODE_WARMUP
          => now - ctl.last_nonzero_transition_time < WARMUP_PERIOD_MS

\* C6 as claimed: max_average_rdma_throughput never decreases.
C6_MaxNeverDecreases ==
    [][ctl'.max_average_rdma_throughput >= ctl.max_average_rdma_throughput]_vars

\* the iteration runs init_netCAS: the mode it determines is Idle and the
\* one-shot flag was clear
Reinitializes == ~ctl.netCAS_initialized /\ ctl'.current_mode = NETCAS_MODE_IDLE

\* C6: max_average_rdma_throughput never decreases from one iteration to
\* the next, except in the Idle iteration that reinitializes the controller,
\* which resets it to 0.
C6_MaxNonDecreasingUntilReinit ==
    [][IF Reinitializes
       THEN ctl'.max_average_rdma_throughput = 0
       ELSE ctl'.max_average_rdma_throughput >= ctl.max_average_rdma_throughput]_vars

\* the maximum held above a window average that has fallen
C6_Witness ==
    /\ ctl.rdma_window_count >= 2
    /\ ctl.rdma_window_average > 0
    /\ ctl.max_average_rdma_throughput > ctl.rdma_window_average

\* C7: after the N-th decision of a window at constant split ratio R, the
\* ToCache count is floor(N*R/window_size), less than 1 away from
\* N*R/window_size; a whole window holds exactly R ToCache decisions.
C7_QuotaTracksRatio ==
    LET N == disp.total_requests
        R == SplitRatio
    IN  N >= 1 =>
          /\ disp.cache_requests = (N * R) \div window_size
          /\ N * R - disp.cache_requests * window_size \in 0 .. (window_size - 1)
          /\ disp.cache_requests + disp.backend_requests = N
          /\ N = window_size => disp.cache_requests = R

\* the second window, after the reset, complete at R = 3333
C7_Witness ==
    /\ SplitRatio = 3333
    /\ disp.request_counter = 2 * window_size
    /\ disp.total_requests = window_size
    /\ disp.cache_requests = 3333

\* C8: at R = 0 every call returns ToBackend and at R = window_size every
\* call returns ToCache, whatever the number of calls.
C8_Extremes ==
    run.len > 0 =>
      /\ SplitRatio = 0 => (~run.to_cache /\ run.len = disp.request_counter)
      /\ SplitRatio = window_size => (run.to_cache /\ run.len = disp.request_counter)

\* the first call of the second window at R = window_size, still ToCache
C8_Witness ==
    /\ SplitRatio = window_size
    /\ disp.request_counter = window_size + 1
    /\ disp.total_requests = 1
    /\ run.to_cache
    /\ run.len = window_size + 1

\* C9 as claimed: for 0 < R < window_size no run of same-direction
\* decisions is longer than pattern_size.
C9_RunWithinPattern ==
    (SplitRatio > 0 /\ SplitRatio < window_size /\ run.len > 0)
        => (run.len <= disp.pattern_size /\ disp.pattern_size <= max_pattern_size)

\* ceil(max(R, window_size - R) / min(R, window_size - R))
RunBound(R) ==
    LET lo == Min(R, window_size - R)
        hi == Max(R, window_size - R)
    IN  (hi + lo - 1) \div lo

\* C9: for 0 < R < window_size no run of same-direction decisions is longer
\* than ceil(max(R, window_size - R) / min(R, window_size - R)).
C9_RunWithinRatio ==
    (SplitRatio > 0 /\ SplitRatio < window_size) => run.len <= RunBound(SplitRatio)

\* a run as long as the bound allows, and longer than any pattern
C9_Witness ==
    /\ SplitRatio > 0
    /\ SplitRatio < window_size
    /\ run.len = RunBound(SplitRatio)
    /\ run.len > max_pattern_size

\* the do-step has run on the request
Dispatched == req.do_runs > 0

\* C10: what the do-step submits and the lock it holds follow from the
\* two admission snapshots: cache sub-reads exactly on a hit with load_admit,
\* under the read lock and with no backend read; a promoting backend read
\* only on a miss with data_admit, under the write lock; otherwise exactly
\* one non-promoting backend read with no lock, no copy buffer and no
\* backfill; never cache and backend reads for the same request.
C10_SubmitFollowsAdmission ==
    /\ req.cache_ios > 0 <=> (Dispatched /\ req.hit /\ req.load_admit_allowed)
    /\ req.cache_ios > 0 =>
          /\ req.lock_type = "read"
          /\ req.cache_ios = req.io_count
          /\ req.core_ios = 0
          /\ req.pc = "cache_io" => req.lock = "read"
    /\ (req.core_ios > 0 /\ req.promote) =>
          /\ ~req.hit
          /\ req.data_admit_allowed
          /\ req.lock_type = "write"
          /\ req.lock = "write"
          /\ req.core_ios = 1
    /\ (Dispatched /\ ((req.hit /\ ~req.load_admit_allowed)
                        \/ (~req.hit /\ ~req.data_admit_allowed))) =>
          /\ req.core_ios = 1
          /\ ~req.promote
          /\ req.lock_type = "none"
          /\ req.lock = "none"
          /\ req.cp_data = "null"
          /\ Count(req.log, "alloc") = 0
          /\ Count(req.log, "backfill") = 0
          /\ req.pc # "bf"
    /\ ~(req.cache_ios > 0 /\ req.core_ios > 0)

\* a hit the dispatcher sent to the backend, read there once and completed
C10_Witness ==
    /\ USING_NETCAS_SPLIT
    /\ req.hit
    /\ ~req.load_admit_allowed
    /\ req.pc = "done"
    /\ req.core_ios = 1
    /\ req.cache_ios = 0
    /\ req.lock_type = "none"
    /\ req.complete_calls = 1

\* every b of the log has an a before it
Precedes(log, a, b) ==
    \A j \in 1 .. Len(log) : log[j] = b => \E i \in 1 .. (j - 1) : log[i] = a

\* C11: when a promoting backend read ends in error (backend I/O error,
\* allocation failure of the copy buffer, mlock failure), no backfill is
\* scheduled for the request, the callback gets the error, and the copy
\* buffer is freed and cp_data reset to NULL before the request is handed
\* to the invalidate engine.
C11_NoBackfillOnError ==
    (req.promote /\ req.error # "ok") =>
       /\ req.pc = "inv"
       /\ Count(req.log, "backfill") = 0
       /\ req.cp_data = "null"
       /\ req.cp_bytes = "none"
       /\ Count(req.log, "free") = 1
       /\ Precedes(req.log, "free", "invalidate")
       /\ req.complete_arg = req.error

\* the copy buffer was allocated, mlock failed: nothing was submitted, the
\* buffer is gone and the request is with the invalidate engine
C11_Witness ==
    /\ req.promote
    /\ req.error = "no_mem"
    /\ Count(req.log, "alloc") = 1
    /\ req.core_ios = 0
    /\ req.cp_data = "null"
    /\ req.pc = "inv"

\* the last n events of the log
LogTail(log, n) == IF Len(log) <= n THEN log ELSE SubSeq(log, Len(log) - n + 1, Len(log))

\* C12: a promoting read that succeeds goes through, in this order: the
\* backend read completes, its bytes are copied into the copy buffer, the
\* callback is invoked with success, the backfill is scheduled; the copy
\* buffer handed to the backfill holds the bytes the backend returned, which
\* are the bytes the user's buffer held when the callback ran.
C12_PromoteOrder ==
    req.pc = "bf" =>
       /\ Len(req.log) >= 4
       /\ LogTail(req.log, 4) = <<"core_cmpl", "cpy", "complete", "backfill">>
       /\ req.complete_arg = "ok"
       /\ req.core_bytes \in Bytes
       /\ req.cp_data = "allocated"
       /\ req.cp_bytes = req.core_bytes
       /\ req.complete_data = req.core_bytes

\* a miss promoted after the cleaner had run, with bytes b1
C12_Witness ==
    /\ req.pc = "bf"
    /\ req.core_bytes = "b1"
    /\ req.cp_bytes = "b1"
    /\ Count(req.log, "clean") = 1
    /\ req.complete_calls = 1

\* the completions of write sub-operations that have arrived
IsWriteCmpl(e) == e \in {"w_cache_cmpl", "w_flush_cmpl", "w_core_cmpl"}

Arrived == Len(SelectSeq(req.log, IsWriteCmpl))

\* a write the do-step has taken
WriteDispatched == req.do_runs > 0 /\ Count(req.log, "update_bits") > 0

\* C13: for a write with no metadata flush, req_remaining is io_count + 1
\* before anything is submitted and io_count + 1 less the completions that
\* have arrived afterwards, whatever their order; it never goes below zero,
\* and the callback has been invoked (once) exactly when all io_count + 1
\* completions have arrived.
C13_WriteCountsCompletions ==
    (WriteDispatched /\ ~req.flush_metadata) =>
       /\ req.req_remaining = req.io_count + 1 - Arrived
       /\ req.req_remaining >= 0
       /\ req.sub_pc = "cache" => (req.req_remaining = req.io_count + 1 /\ Arrived = 0)
       /\ req.complete_calls <= 1
       /\ req.complete_calls = 1 <=> Arrived = req.io_count + 1
       /\ req.complete_calls = Count(req.log, "complete")

\* two cache sub-writes and the backend write between them, all successful
C13_Witness ==
    /\ ~req.flush_metadata
    /\ req.io_count = 2
    /\ SelectSeq(req.log, IsWriteCmpl) = <<"w_cache_cmpl", "w_core_cmpl", "w_cache_cmpl">>
    /\ req.req_remaining = 0
    /\ req.complete_calls = 1
    /\ req.pc = "done"

\* all the sub-operations of the write have been submitted and have completed
WriteOver ==
    /\ WriteDispatched
    /\ req.sub_pc = "none"
    /\ req.cache_pending = 0
    /\ req.core_pending = 0
    /\ req.flush_pending = 0

\* C14: once the last completion of a write has arrived, the callback has
\* received the backend's error code if the backend write failed (whether
\* cache-side errors arrived before or after it) and success otherwise, also
\* when cache-side operations failed; the request went to the invalidate
\* engine if any cache-side or backend operation failed, and otherwise the
\* write locks were released before the callback and the reference dropped.
C14_WriteErrorCode ==
    WriteOver =>
       /\ req.complete_calls = 1
       /\ req.complete_arg = (IF req.core_failed THEN "core_io_error" ELSE "ok")
       /\ req.pc = "inv" <=> (req.core_failed \/ req.cache_failed)
       /\ req.pc = "inv" => (req.ref = 1 /\ req.lock = "write"
                              /\ LogTail(req.log, 2) = <<"complete", "invalidate">>)
       /\ req.pc # "inv" =>
             /\ req.pc = "done"
             /\ req.lock = "none"
             /\ req.ref = 0
             /\ LogTail(req.log, 2) = <<"unlock", "complete">>

\* the backend write failed first, a cache sub-write failed after it
C14_Witness ==
    /\ WriteOver
    /\ SelectSeq(req.log, IsWriteCmpl) = <<"w_core_cmpl", "w_cache_cmpl">>
    /\ req.core_failed
    /\ req.cache_failed
    /\ req.complete_arg = "core_io_error"
    /\ req.pc = "inv"

Ticked == trace'.ticks = trace.ticks + 1

\* C15: after every iteration whose throughput sample is at or below
\* RDMA_THRESHOLD the mode is Idle, whatever the mode was before and
\* whatever drop_permil the iteration computed; such an iteration never
\* ends in Congestion.
C15_IdleAtOrBelowThreshold ==
    (trace.ticks > 0 /\ ctl.curr_rdma_throughput <= RDMA_THRESHOLD) =>
       /\ ctl.current_mode = NETCAS_MODE_IDLE
       /\ ctl.netCAS_mode = NETCAS_MODE_IDLE

\* a sample equal to the threshold, in an iteration that had computed a
\* drop above the congestion threshold: Idle, and the window reinitialized
C15_Witness ==
    /\ trace.ticks > 0
    /\ trace.changes = 2
    /\ ctl.curr_rdma_throughput = RDMA_THRESHOLD
    /\ ctl.drop_permil > CONGESTION_THRESHOLD
    /\ ctl.netCAS_mode = NETCAS_MODE_IDLE
    /\ ctl.netCAS_initialized

\* the part of the statics that init_netCAS sets
ControllerState(c) ==
    <<c.rdma_throughput_window, c.rdma_window_sum, c.rdma_window_count,
      c.rdma_window_index, c.rdma_window_average, c.max_average_rdma_throughput,
      c.optimal_split_ratio, c.global_data_admit,
      c.split_ratio_calculated_in_stable, c.netCAS_initialized,
      c.last_nonzero_transition_time>>

Reinitialized(c) ==
    /\ \A i \in WindowSlots : c.rdma_throughput_window[i] = 0
    /\ c.rdma_window_sum = 0
    /\ c.rdma_window_count = 0
    /\ c.rdma_window_index = 0
    /\ c.rdma_window_average = 0
    /\ c.max_average_rdma_throughput = 0
    /\ c.optimal_split_ratio = 100
    /\ c.global_data_admit
    /\ ~c.split_ratio_calculated_in_stable

\* C17: an iteration that ends in Idle after a mode other than Idle leaves
\* the controller reinitialized (window slots, sum, count, index and average
\* 0, maximum 0, split ratio 100, data_admit on, calculated-in-stable flag
\* off); an iteration that ends in Idle after Idle leaves that state as it
\* was.
C17_ReinitOnFirstIdle ==
    [][(Ticked /\ ctl'.current_mode = NETCAS_MODE_IDLE) =>
          IF ctl.current_mode # NETCAS_MODE_IDLE
          THEN Reinitialized(ctl') /\ ctl'.netCAS_initialized
          ELSE ControllerState(ctl') = ControllerState(ctl)]_vars

\* Idle and reinitialized right after an iteration that computed a drop
\* above the congestion threshold: the window and the maximum are gone
C17_Witness ==
    /\ trace.ticks >= 5
    /\ ctl.current_mode = NETCAS_MODE_IDLE
    /\ ctl.drop_permil > CONGESTION_THRESHOLD
    /\ ctl.rdma_window_count = 0
    /\ ctl.max_average_rdma_throughput = 0
    /\ ctl.optimal_split_ratio = 100

\* C18: an iteration entered in Congestion with a sample above
\* RDMA_THRESHOLD and drop_permil <= CONGESTION_THRESHOLD (90 included) ends
\* in Stable, with the calculated-in-stable flag cleared (it is set again
\* only if that same iteration recomputes the split ratio).
C18_CongestionLeavesAtThreshold ==
    [][(/\ Ticked
        /\ ctl.current_mode = NETCAS_MODE_CONGESTION
        /\ ctl'.curr_rdma_throughput > RDMA_THRESHOLD
        /\ ctl'.drop_permil <= CONGESTION_THRESHOLD) =>
          /\ ctl'.current_mode = NETCAS_MODE_STABLE
          /\ ctl'.split_ratio_calculated_in_stable => ctl'.recomputed]_vars

\* C19: in Stable mode find_best_split_ratio has been called at most once
\* since the mode was entered (from Warmup or from Congestion): not at all
\* while the window holds fewer than RDMA_WINDOW_SIZE samples, and once as
\* soon as an iteration in Stable leaves it with RDMA_WINDOW_SIZE samples;
\* the result is published and the flag set in that iteration.
C19_OnceInStable ==
    (trace.ticks > 0 /\ ctl.netCAS_mode = NETCAS_MODE_STABLE) =>
       /\ trace.stable_calcs <= 1
       /\ trace.stable_calcs = 1 <=> ctl.rdma_window_count >= RDMA_WINDOW_SIZE
       /\ (trace.stable_calcs = 1 /\ mon_pc = "loop") => ctl.split_ratio_calculated_in_stable
       /\ ctl.recomputed => trace.stable_calcs = 1

\* the window began 1000, 800, 800, so the controller went from Stable to
\* Congestion on a drop of 134; it is Stable again, and the iteration that
\* filled the window has computed the split ratio there
C19_Witness ==
    /\ ctl.netCAS_mode = NETCAS_MODE_STABLE
    /\ ctl.rdma_throughput_window[0] = 1000
    /\ ctl.rdma_throughput_window[1] = 800
    /\ ctl.rdma_throughput_window[2] = 800
    /\ ctl.rdma_window_count = RDMA_WINDOW_SIZE
    /\ ctl.rdma_window_index = 0
    /\ trace.stable_calcs = 1
    /\ ctl.recomputed
    /\ ctl.optimal_split_ratio \notin {0, 100}

\* clamp(A*100 / (A + B*(1000 - d)/1000), 0, 100) in integer arithmetic
CongestionSplit(A, B, d) ==
    LET q == (A * 100) \div (A + (B * (1000 - d)) \div 1000)
    IN  IF q < 0 THEN 0 ELSE IF q > 100 THEN 100 ELSE q

\* the quotient of the split formula is defined for drop x
SplitDefined(x) == table.cache_only + (table.backend_only * (1000 - x)) \div 1000 > 0

\* what find_best_split_ratio returns for drop x with traffic above the
\* threshold and a maximum on record (the table is the one of the state)
BestAt(x) ==
    find_best_split_ratio([CtlInit EXCEPT !.max_average_rdma_throughput = 1],
                          table, RDMA_THRESHOLD + 1, x)

\* a larger drop never gives a smaller split ratio
MonotoneInDrop ==
    \A x \in 0 .. 999 :
       (SplitDefined(x) /\ SplitDefined(x + 1)) =>
          \A lo \in BestAt(x), hi \in BestAt(x + 1) : lo.value <= hi.value

DropOf(c) ==
    IF c.max_average_rdma_throughput > 0
    THEN ((c.max_average_rdma_throughput - c.rdma_window_average) * 1000)
             \div c.max_average_rdma_throughput
    ELSE 0

\* C21: in every iteration the drop_permil handed to determine_netcas_mode
\* and to find_best_split_ratio is ((max_avg - window_avg) * 1000) / max_avg
\* of the statics the iteration starts with when max_avg > 0, and 0 when
\* max_avg is 0; an iteration that goes from Stable to Congestion started
\* with a maximum on record, so it never acts on a drop left from before a
\* reinitialization.
C21_DropFromWindow ==
    [][Ticked =>
          /\ ctl'.drop_permil = DropOf(ctl)
          /\ (ctl.current_mode = NETCAS_MODE_STABLE
              /\ ctl'.current_mode = NETCAS_MODE_CONGESTION)
                => ctl.max_average_rdma_throughput > 0]_vars

\* the sum of the last k elements of the sequence s
RECURSIVE SumLast(_, _)
SumLast(s, k) == IF k = 0 THEN 0 ELSE s[Len(s) - k + 1] + SumLast(s, k - 1)

\* C22: with n the number of samples appended since init_netCAS last ran,
\* rdma_window_count = min(n, RDMA_WINDOW_SIZE), rdma_window_index = n mod
\* RDMA_WINDOW_SIZE, the slots hold the last min(n, RDMA_WINDOW_SIZE) samples
\* and rdma_window_sum is their sum, rdma_window_average = floor(sum / count)
\* when n > 0, and max_average_rdma_throughput >= rdma_window_average, so
\* the drop computed from the statics is within 0 .. 1000.
C22_WindowTracksSamples ==
    LET n == Len(trace.appended)
        k == Min(n, RDMA_WINDOW_SIZE)
    IN  /\ ctl.rdma_window_count = k
        /\ ctl.rdma_window_index = n % RDMA_WINDOW_SIZE
        /\ \A i \in 1 .. k :
              ctl.rdma_throughput_window[(n - i) % RDMA_WINDOW_SIZE] = trace.appended[n - i + 1]
        /\ ctl.rdma_window_sum = SumLast(trace.appended, k)
        /\ n > 0 => ctl.rdma_window_average = ctl.rdma_window_sum \div ctl.rdma_window_count
        /\ ctl.max_average_rdma_throughput >= ctl.rdma_window_average
        /\ DropOf(ctl) \in 0 .. 1000

\* the window has wrapped: 22 samples were appended, the two oldest (1000)
\* are overwritten by samples of 800 and no longer count in the sum
C22_Witness ==
    /\ Len(trace.appended) = RDMA_WINDOW_SIZE + 2
    /\ trace.appended[1] = 1000
    /\ trace.appended[2] = 1000
    /\ ctl.rdma_throughput_window[0] = 800
    /\ ctl.rdma_throughput_window[1] = 800
    /\ ctl.rdma_window_index = 2
    /\ ctl.rdma_window_sum = 800 * RDMA_WINDOW_SIZE

\* the step is a store of the monitor thread to optimal_split_ratio
\* (lines 333 and 358 of split_monitor_func, line 63 of split_set_optimal_ratio)
StoresRatio ==
    /\ mon_pc \in {"stable_store", "congestion_store", "set_store"}
    /\ mon_pc' # mon_pc

\* C23: the monitor thread stores to optimal_split_ratio (in the Stable
\* case, in the Congestion case and in the reinitialization) only while it
\* holds split_ratio_lock as the writer, so no context that holds the lock
\* as a reader in netcas_query_optimal_split_ratio is inside its critical
\* section when the store happens.
C23_StoresUnderWriteLock ==
    [][StoresRatio => (split_ratio_lock.writer /\ split_ratio_lock.readers = 0)]_vars

\* C24: an iteration of the monitor loop that has not stopped ends with a
\* sleep of MONITOR_INTERVAL_MS: when the thread samples the throughput
\* again, msleep has been called exactly once since the sample before.
C24_SleepsBetweenSamples ==
    [][(mon_pc = "measure" /\ mon_pc' # mon_pc /\ trace.ticks > 0)
          => trace.sleeps = 1]_vars

\* the thread has seen the stop flag at the top of the loop
StopObserved == mon_pc \in {"msleep", "exited"}

\* C25: once netcas_mngt_split_monitor_stop has set the stop flag, the
\* monitor thread, scheduled fairly, eventually sees it at the top of an
\* iteration and exits; it has then destroyed each of the two locks exactly
\* once, and from the moment it has seen the flag it changes no mode, no
\* window and no published value.
C25_StopEndsThread ==
    /\ mon.should_stop ~> (mon_pc = "exited")
    /\ [](StopObserved => (split_ratio_lock.destroys = 1 /\ data_admit_lock.destroys = 1))
    /\ [][StopObserved => ctl' = ctl]_vars

\* the contexts inside load_admit_allow
InsideCall == {i \in Submitters : calls.local[i].pc # "idle"}

\* C26: the calls of load_admit_allow made from several submitting
\* contexts are serialized: at no time are two contexts inside the function,
\* and whenever no call is in flight total_requests is the number of calls
\* made since the window was last reset and cache_requests +
\* backend_requests = total_requests.
C26_CallsSerialized ==
    /\ Cardinality(InsideCall) <= 1
    /\ InsideCall = {} =>
          /\ disp.total_requests = calls.since_reset
          /\ disp.cache_requests + disp.backend_requests = disp.total_requests

\* C27: when the allocation of the copy buffer or its page-locking fails on
\* the promotion path, no backend read is submitted for the request, the
\* callback is invoked once, with the no-memory error, and the request is
\* handed once to the invalidate engine.
C27_AllocFailureFailsLocally ==
    (req.promote /\ req.error = "no_mem") =>
       /\ req.core_ios = 0
       /\ Count(req.log, "submit_core") = 0
       /\ Count(req.log, "core_cmpl") = 0
       /\ req.complete_calls = 1
       /\ req.complete_arg = "no_mem"
       /\ Count(req.log, "invalidate") = 1
       /\ req.pc = "inv"

\* a miss whose dirty lines were cleaned first and whose copy buffer could
\* not be allocated: no buffer, no backend read, the callback got no_mem
C27_Witness ==
    /\ req.promote
    /\ req.error = "no_mem"
    /\ Count(req.log, "clean") = 1
    /\ Count(req.log, "alloc") = 0
    /\ req.complete_calls = 1
    /\ req.complete_arg = "no_mem"
    /\ req.pc = "inv"

\* C28: with the calls of load_admit_allow serialized and the split ratio
\* anywhere in 0 .. window_size, changing between calls or not, every call
\* is decided by one of the two branches that compare a count with its
\* expected value; cache_requests + backend_requests = total_requests after
\* every call, the pattern branch and the quota branch never run and
\* pattern_position stays 0.
C28_ReconciliationDecides ==
    /\ calls.started > 0 => calls.branch \in {"cache_behind", "backend_behind"}
    /\ disp.cache_requests + disp.backend_requests = disp.total_requests
    /\ disp.total_requests = calls.since_reset
    /\ disp.pattern_position = 0

\* the split ratio changed twice, the window was reset after the second
\* change and a call of the new window went to the cache
C28_Witness ==
    /\ calls.ratio_changes = MaxRatioChanges
    /\ disp.request_counter > window_size
    /\ disp.total_requests = disp.request_counter - window_size
    /\ calls.branch = "cache_behind"
    /\ disp.cache_requests > 0
    /\ disp.backend_requests > 0

\* the references on the request the read engine has taken and not released
\* once it has returned: the request was created with one reference, which
\* the last completion releases or the engine it was handed to inherits
HeldByEngine == req.ref - (IF req.pc = "done" THEN 0 ELSE 1)

\* C29: every reference the read engine takes on a request (line 372 at
\* entry, line 277 at the start of the do-step) is released by the engine on
\* every branch, the read-locked switch to pass-through included: once the
\* engine has returned, the request carries no reference of the engine's.
C29_EngineRefsReleased ==
    req.pc # "none" => HeldByEngine = 0

\* C30: whenever the read engine hands a request to the invalidate engine
\* after a backend read error, the request holds the write lock on its cache
\* lines; a request dispatched with lock type none (a hit that load_admit
\* sends to the backend, a miss with data_admit off) never reaches the
\* invalidate engine.
C30_InvalidateUnderWriteLock ==
    req.pc = "inv" =>
       /\ req.lock_type = "write"
       /\ req.lock = "write"

====
